---- MODULE Spec2Model ----
(***************************************************************************)
(* The block-ingestion pipeline of the Albatross chain core:               *)
(* Blockchain::push / trusted_push / do_push / extend / rebranch /         *)
(* check_and_commit (blockchain/src/blockchain/push.rs) and                *)
(* commit_accounts / revert_accounts (blockchain-albatross/.../accounts.rs)*)
(* over a transactional chain store and accounts trie.                     *)
(*                                                                         *)
(* A block is identified with the path of block contents leading to it     *)
(* from genesis: its hash is the path, its parent hash the path without    *)
(* the last element, its block number the length of the path.              *)
(***************************************************************************)
EXTENDS Integers, Sequences, FiniteSets, TLC

(* ------------------------------ bounds --------------------------------- *)
\* Highest block number of the blocks handed to push.
MaxHeight == 6
\* Largest number of blocks the store is let to hold off the chain of the head.
MaxForked == 2
\* The same two bounds for the specification of the long chains (DeepSpec).
DeepMaxHeight == 12
DeepMaxForked == 3
\* The block numbers the height index of the store is kept for.
IndexedHeights ==
  0..((IF DeepMaxHeight > MaxHeight THEN DeepMaxHeight ELSE MaxHeight) + 1)

(* ------------------------------ policy --------------------------------- *)
BATCH_LENGTH == 3
EPOCH_LENGTH == 6
MAX_EPOCHS_STORED == 1
TRANSACTION_VALIDITY_WINDOW == 2

is_macro_block_at(n) == n % BATCH_LENGTH = 0
is_election_block_at(n) == n % EPOCH_LENGTH = 0
last_macro_block(n) == (n \div BATCH_LENGTH) * BATCH_LENGTH
epoch_at(n) == (n + EPOCH_LENGTH - 1) \div EPOCH_LENGTH
saturating_sub(a, b) == IF a >= b THEN a - b ELSE 0

None == "None"
\* The absent hash (Option::None of a hash, and the parent hash of genesis).
NoHash == << "None" >>
\* The absent receipts.
NoReceipts == [txs |-> << >>, slash |-> -1]

(* ------------------------------ blocks --------------------------------- *)
\* The contents a block may carry.  tx: the transaction of a micro block's
\* body; entropy: the VRF entropy of its seed; skip: a skip block;
\* header / justification / body: the first verifier stage it fails (None
\* when it passes all of them); root_ok: whether its state_root field is the
\* accounts hash its own commit produces.
Content ==
  [ A |-> [tx |-> "T1", entropy |-> 1, skip |-> FALSE, fails |-> None, root_ok |-> TRUE],
    B |-> [tx |-> "T2", entropy |-> 2, skip |-> FALSE, fails |-> None, root_ok |-> TRUE],
    C |-> [tx |-> None, entropy |-> 2, skip |-> TRUE,  fails |-> None, root_ok |-> TRUE],
    R |-> [tx |-> None, entropy |-> 2, skip |-> FALSE, fails |-> None, root_ok |-> FALSE],
    J |-> [tx |-> None, entropy |-> 3, skip |-> FALSE, fails |-> "justification", root_ok |-> TRUE],
    H |-> [tx |-> None, entropy |-> 3, skip |-> FALSE, fails |-> "header", root_ok |-> TRUE],
    Y |-> [tx |-> None, entropy |-> 3, skip |-> FALSE, fails |-> "body", root_ok |-> TRUE] ]

Kinds == DOMAIN Content

\* The contents of the blocks of each block number that push is called with.
KindsAt(n) ==
  CASE n = 1 -> {"A", "C"}
    [] n = 2 -> {"A", "B", "C"}
    [] n = 3 -> {"A", "C"}
    [] n = 4 -> {"C", "R"}
    [] n = 5 -> {"C", "J", "H", "Y"}
    [] OTHER -> {"A"}

\* The value a transaction moves into (positive) or out of (negative) the account.
TxValue == [T1 |-> 2, T2 |-> -1]

Genesis == << >>

hash(block) == block
block_number(block) == Len(block)
parent_hash(block) ==
  IF block = Genesis THEN NoHash ELSE SubSeq(block, 1, Len(block) - 1)
content(block) == Content[block[Len(block)]]
is_macro(block) == is_macro_block_at(block_number(block))
is_micro(block) == ~is_macro(block)
is_skip(block) == block # Genesis /\ is_micro(block) /\ content(block).skip
is_election_block(block) == is_election_block_at(block_number(block))
entropy(block) == IF block = Genesis THEN 0 ELSE content(block).entropy
transactions(block) ==
  IF block # Genesis /\ is_micro(block) /\ content(block).tx # None
  THEN << content(block).tx >> ELSE << >>
get_validators(block) == block

(* ------------------------------ accounts ------------------------------- *)
\* The accounts trie: one account's balance and the number of slashes applied.
GenesisAccounts == [balance |-> 0, slashes |-> 0]

\* Accounts::hash: the root hash of the trie, taken to be free of collisions.
accounts_hash(acc) == << "root", acc.balance, acc.slashes >>

\* Inherents of a block: one slash per skipped slot, and the finalisation of
\* the previous epoch on an election block.
create_slash_inherents(block) == IF is_skip(block) THEN 1 ELSE 0
finalize_previous_epoch(block) == IF is_election_block(block) THEN 1 ELSE 0
Inherents(block) ==
  [slash |-> create_slash_inherents(block),
   finalize |-> IF is_macro(block) THEN finalize_previous_epoch(block) ELSE 0]

RECURSIVE ApplyTxs(_, _)
\* The balance after the transactions, or -1 when one of them overdraws it.
ApplyTxs(balance, txs) ==
  IF txs = << >> THEN balance
  ELSE IF balance + TxValue[Head(txs)] < 0 THEN -1
  ELSE ApplyTxs(balance + TxValue[Head(txs)], Tail(txs))

RECURSIVE SumTxs(_)
SumTxs(txs) == IF txs = << >> THEN 0 ELSE TxValue[Head(txs)] + SumTxs(Tail(txs))

\* Accounts::commit: the new trie and the receipts, or an error.
AccountsCommit(acc, txs, inherents, n) ==
  LET b == ApplyTxs(acc.balance, txs) IN
  IF b < 0 THEN [ok |-> FALSE, accounts |-> acc, receipts |-> NoReceipts]
  ELSE [ok |-> TRUE,
        accounts |-> [balance |-> b + inherents.finalize,
                      slashes |-> acc.slashes + inherents.slash],
        receipts |-> [txs |-> txs, slash |-> inherents.slash]]

\* Accounts::revert: undoes a commit with the receipts it produced; receipts of
\* another commit, or a trie the commit cannot have produced, are an error.
AccountsRevert(acc, txs, inherents, n, receipts) ==
  IF \/ receipts # [txs |-> txs, slash |-> inherents.slash]
     \/ acc.balance - SumTxs(txs) < 0
     \/ acc.slashes - inherents.slash < 0
  THEN [ok |-> FALSE, accounts |-> acc]
  ELSE [ok |-> TRUE,
        accounts |-> [balance |-> acc.balance - SumTxs(txs),
                      slashes |-> acc.slashes - inherents.slash]]

RECURSIVE StateAfter(_)
\* The accounts produced by committing the blocks of a chain in order.
\* A commit that fails hands back the accounts it was given.
StateAfter(block) ==
  IF block = Genesis THEN GenesisAccounts
  ELSE AccountsCommit(StateAfter(parent_hash(block)), transactions(block),
                      Inherents(block), block_number(block)).accounts

\* A state_root no accounts trie hashes to.
BadRoot == << "root", -1, 0 >>

\* The state_root field of a block's header.
state_root(block) ==
  IF block # Genesis /\ ~content(block).root_ok THEN BadRoot
  ELSE accounts_hash(StateAfter(block))

(* ------------------------------ chain store ---------------------------- *)
\* ChainInfo::from_block: a block that is not (yet) on the main chain.
from_block(block) ==
  [head |-> block, on_main_chain |-> FALSE, main_chain_successor |-> NoHash]

has_chain_info(store, h) == h \in DOMAIN store.chain_info
get_chain_info(store, h) == store.chain_info[h]

put_chain_info(store, h, info) ==
  [store EXCEPT
     !.chain_info = (h :> info) @@ @,
     !.height_index = [@ EXCEPT ![block_number(info.head)] = @ \cup {h}]]

remove_chain_info(store, h, height) ==
  [store EXCEPT
     !.chain_info = [x \in (DOMAIN @) \ {h} |-> @[x]],
     !.height_index = [@ EXCEPT ![height] = @ \ {h}]]

get_blocks_at(store, height) == store.height_index[height]

set_head(store, h) == [store EXCEPT !.head = h]

put_receipts(store, n, receipts) ==
  [store EXCEPT !.receipts = (n :> receipts) @@ @]
has_receipts(store, n) == n \in DOMAIN store.receipts
get_receipts(store, n) == store.receipts[n]
clear_receipts(store) == [store EXCEPT !.receipts = << >>]

\* Removes the chain-infos of the epochs older than epoch_number.
prune_epoch(store, epoch_number) ==
  LET old == {h \in DOMAIN store.chain_info : epoch_at(block_number(h)) < epoch_number} IN
  [store EXCEPT
     !.chain_info = [x \in (DOMAIN @) \ old |-> @[x]],
     !.height_index = [n \in DOMAIN @ |-> @[n] \ old]]

\* A write transaction: a private copy of the store and the accounts trie,
\* installed by commit and dropped by abort.
write_transaction(store, accounts) == [store |-> store, accounts |-> accounts]

(* ------------------------------ verifier ------------------------------- *)
\* verify_block_header: structural header rules; the seed and signing-key
\* checks it skips in trusted mode are counted with the justification.
verify_block_header(block, check_signatures) == content(block).fails # "header"
\* verify_block_justification: skipped in trusted mode.
verify_block_justification(block, check_signatures) ==
  ~check_signatures \/ content(block).fails # "justification"
verify_block_body(block) == content(block).fails # "body"
\* verify_block_state: the state check after the accounts commit.
verify_block_state(block, txn) == state_root(block) = accounts_hash(txn.accounts)

RECURSIVE Ancestors(_, _)
\* The count nearest blocks of the chain ending in block (block included).
Ancestors(block, count) ==
  IF count = 0 \/ block = Genesis THEN {}
  ELSE {block} \cup Ancestors(parent_hash(block), count - 1)

\* Whether tx is in a block of the validity window of the chain ending in tip,
\* the chain the write transaction holds when the next block is committed.
contains_tx_in_validity_window(tx, tip) ==
  \E a \in Ancestors(tip, TRANSACTION_VALIDITY_WINDOW) :
     \E i \in 1..Len(transactions(a)) : transactions(a)[i] = tx

(* ------------------------------ accounts.rs ---------------------------- *)
Ok(txn, log) == [ok |-> TRUE, err |-> None, txn |-> txn, log |-> log]
Err(e, txn) == [ok |-> FALSE, err |-> e, txn |-> txn, log |-> None]

\* StoreReceipts that leaves the receipts as they are at a macro block.
StoreReceipts_never_clears(block, txn, r) ==
  LET committed == [txn EXCEPT !.accounts = r.accounts]
      stored ==
        IF is_macro(block) THEN committed
        ELSE [committed EXCEPT
                !.store = put_receipts(@, block_number(block), r.receipts)]
  IN IF ~r.ok THEN Err("AccountsError", txn)
     ELSE IF state_root(block) # accounts_hash(stored.accounts)
     THEN Err("InvalidBlock(AccountsHashMismatch)", stored)
     ELSE Ok(stored, [op |-> "commit", block |-> block])

\* commit_accounts once the accounts commit gave r: the receipts are stored
\* (cleared by a macro block) and the accounts hash is compared.
StoreReceipts(block, txn, r) ==
  LET committed == [txn EXCEPT !.accounts = r.accounts]
      stored ==
        IF is_macro(block)
        THEN [committed EXCEPT !.store = clear_receipts(@)]
        ELSE [committed EXCEPT
                !.store = put_receipts(@, block_number(block), r.receipts)]
  IN IF ~r.ok THEN Err("AccountsError", txn)
     ELSE IF state_root(block) # accounts_hash(stored.accounts)
     THEN Err("InvalidBlock(AccountsHashMismatch)", stored)
     ELSE Ok(stored, [op |-> "commit", block |-> block])

commit_accounts(block, txn) ==
  StoreReceipts(block, txn,
                AccountsCommit(txn.accounts, transactions(block), Inherents(block),
                               block_number(block)))

\* Reverted that leaves the accounts of the write transaction as they are.
Reverted_keeps_accounts(block, txn, r) ==
  IF ~r.ok THEN Err("panic: Failed to revert", txn)
  ELSE Ok(txn, [op |-> "revert", block |-> block])

\* revert_accounts once the accounts revert gave r.
Reverted(block, txn, r) ==
  IF ~r.ok THEN Err("panic: Failed to revert", txn)
  ELSE Ok([txn EXCEPT !.accounts = r.accounts], [op |-> "revert", block |-> block])

\* The panic of a corruption assertion, or the reverted transaction.
revert_accounts(block, txn) ==
  IF state_root(block) # accounts_hash(txn.accounts)
  THEN Err("panic: Failed to revert - inconsistent state", txn)
  ELSE IF ~has_receipts(txn.store, block_number(block))
  THEN Err("panic: Failed to revert - missing receipts", txn)
  ELSE Reverted(block, txn,
                AccountsRevert(txn.accounts, transactions(block), Inherents(block),
                               block_number(block),
                               get_receipts(txn.store, block_number(block))))

(* ------------------------------ push.rs -------------------------------- *)
RECURSIVE FirstDuplicate(_, _)
FirstDuplicate(txs, tip) ==
  IF txs = << >> THEN FALSE
  ELSE contains_tx_in_validity_window(Head(txs), tip) \/ FirstDuplicate(Tail(txs), tip)

\* VerifyState that passes whatever the accounts hash is.
VerifyState_unverified(block, block_log) ==
  IF ~block_log.ok /\ block_log.err = "AccountsError" THEN block_log
  ELSE Ok(block_log.txn, [op |-> "commit", block |-> block])

\* check_and_commit once commit_accounts gave block_log: the state check.
VerifyState(block, block_log) ==
  IF ~block_log.ok THEN block_log
  ELSE IF ~verify_block_state(block, block_log.txn)
  THEN Err("InvalidBlock(AccountsHashMismatch)", block_log.txn)
  ELSE block_log

\* check_and_commit that commits the accounts and checks the state before it
\* looks for the transactions in the validity window.
check_and_commit_commit_first(block, txn) ==
  IF ~VerifyState(block, commit_accounts(block, txn)).ok
  THEN VerifyState(block, commit_accounts(block, txn))
  ELSE IF is_micro(block) /\ FirstDuplicate(transactions(block), parent_hash(block))
  THEN Err("DuplicateTransaction", txn)
  ELSE VerifyState(block, commit_accounts(block, txn))

check_and_commit(block, txn) ==
  IF is_micro(block) /\ FirstDuplicate(transactions(block), parent_hash(block))
  THEN Err("DuplicateTransaction", txn)
  ELSE VerifyState(block, commit_accounts(block, txn))

\* What a push hands back: its result, the store, accounts and in-memory state
\* it leaves, and what it sent to the notifier, the log notifier and the fork
\* notifier.
Outcome(result, store, accounts, state, events, logs, forks) ==
  [result |-> result, store |-> store, accounts |-> accounts, state |-> state,
   events |-> events, logs |-> logs, forks |-> forks]

\* UpdateState that leaves main_chain and head_hash as they are.
UpdateState_keeps_head(state, new_head_hash, new_head_info, is_election) ==
  LET block == new_head_info.head IN
  IF is_macro(block)
  THEN [state EXCEPT !.macro_info = new_head_info, !.macro_head_hash = new_head_hash]
  ELSE state

\* The in-memory state after new_head_info became the head (the section under
\* the write lock).
UpdateState(state, new_head_hash, new_head_info, is_election) ==
  LET block == new_head_info.head
      s1 == IF is_macro(block)
            THEN [state EXCEPT !.macro_info = new_head_info,
                               !.macro_head_hash = new_head_hash]
            ELSE state
      s2 == IF is_macro(block) /\ is_election
            THEN [s1 EXCEPT !.election_head = block,
                            !.election_head_hash = new_head_hash,
                            !.previous_slots = s1.current_slots,
                            !.current_slots = get_validators(block)]
            ELSE s1
  IN [s2 EXCEPT !.main_chain = new_head_info, !.head_hash = new_head_hash]

\* PersistExtend that does not put the predecessor.
PersistExtend_no_predecessor(store, block_hash, chain_info, prev_info) ==
  set_head(put_chain_info(store, block_hash, chain_info), block_hash)

\* The store after extend put the new head and its predecessor and set the head.
PersistExtend(store, block_hash, chain_info, prev_info) ==
  set_head(put_chain_info(put_chain_info(store, block_hash, chain_info),
                          parent_hash(chain_info.head), prev_info),
           block_hash)

\* ExtendEvent that tests for a macro block before it tests for an election
\* block.
ExtendEvent_macro_first(is_election, is_macro_at_bn, block_hash) ==
  IF is_macro_at_bn THEN [type |-> "Finalized", hash |-> block_hash]
  ELSE IF is_election THEN [type |-> "EpochFinalized", hash |-> block_hash]
  ELSE [type |-> "Extended", hash |-> block_hash]

\* The BlockchainEvent extend notifies.
ExtendEvent(is_election, is_macro_at_bn, block_hash) ==
  IF is_election THEN [type |-> "EpochFinalized", hash |-> block_hash]
  ELSE IF is_macro_at_bn THEN [type |-> "Finalized", hash |-> block_hash]
  ELSE [type |-> "Extended", hash |-> block_hash]

\* extend once check_and_commit gave block_info.
ExtendCommitted(store, accounts, state, block_hash, chain_info, prev_info, forks, block_info) ==
  LET bn == block_number(state.main_chain.head) + 1
      is_macro_at_bn == is_macro_block_at(bn)
      is_election == is_election_block_at(bn)
  IN IF ~block_info.ok
     THEN Outcome(block_info.err, store, accounts, state, << >>, << >>, forks)
     ELSE
       LET info == [chain_info EXCEPT !.on_main_chain = TRUE]
           prev == [prev_info EXCEPT !.main_chain_successor = hash(info.head)]
           s3 == PersistExtend(block_info.txn.store, block_hash, info, prev)
           s4 == IF is_election
                 THEN prune_epoch(s3, saturating_sub(epoch_at(bn), MAX_EPOCHS_STORED))
                 ELSE s3
           event == ExtendEvent(is_election, is_macro_at_bn, block_hash)
       IN Outcome("Extended", s4, block_info.txn.accounts,
                  UpdateState(state, block_hash, info, is_election),
                  << event >>, << block_info.log >>, forks)

\* extend that keeps what the write transaction of a failed check_and_commit
\* wrote.
extend_no_abort(store, accounts, state, block_hash, chain_info, prev_info, forks) ==
  LET block_info == check_and_commit(chain_info.head,
                                     write_transaction(store, accounts))
  IN IF ~block_info.ok
     THEN Outcome(block_info.err, block_info.txn.store, block_info.txn.accounts,
                  state, << >>, << >>, forks)
     ELSE ExtendCommitted(store, accounts, state, block_hash, chain_info, prev_info,
                          forks, block_info)

extend(store, accounts, state, block_hash, chain_info, prev_info, forks) ==
  ExtendCommitted(store, accounts, state, block_hash, chain_info, prev_info, forks,
                  check_and_commit(chain_info.head,
                                   write_transaction(store, accounts)))

Entry(h, info) == [hash |-> h, info |-> info]

RECURSIVE FindAncestor(_, _, _)
\* The walk up the fork chain to the first block on the main chain; fork_chain
\* is in tip-first order.  ok is FALSE when a predecessor is not in the store.
FindAncestor(store, current, fork_chain) ==
  IF current.info.on_main_chain
  THEN [ok |-> TRUE, fork_chain |-> fork_chain, ancestor |-> current]
  ELSE LET prev_hash == parent_hash(current.info.head) IN
       IF ~has_chain_info(store, prev_hash)
       THEN [ok |-> FALSE, fork_chain |-> fork_chain, ancestor |-> current]
       ELSE FindAncestor(store, Entry(prev_hash, get_chain_info(store, prev_hash)),
                         Append(fork_chain, current))

\* Where the revert walk stands: panic names the assertion that fired, if any.
RevertWalk(panic, txn, revert_chain, logs) ==
  [panic |-> panic, txn |-> txn, revert_chain |-> revert_chain, logs |-> logs]

RECURSIVE RevertChain(_, _, _, _, _)
RECURSIVE RevertStep(_, _, _, _, _, _)
\* One step of the revert walk once revert_accounts gave r for the block of
\* current.
RevertStep(txn, current, ancestor_hash, revert_chain, logs, r) ==
  LET prev_hash == parent_hash(current.info.head)
      prev_info == get_chain_info(txn.store, prev_hash)
  IN IF ~r.ok THEN RevertWalk(r.err, txn, revert_chain, logs)
     ELSE IF state_root(prev_info.head) # accounts_hash(r.txn.accounts)
     THEN RevertWalk("panic: Failed to revert main chain while rebranching - inconsistent state",
                     txn, revert_chain, logs)
     ELSE RevertChain(r.txn, Entry(prev_hash, prev_info), ancestor_hash,
                      Append(revert_chain, current), Append(logs, r.log))

\* The walk down the main chain from the head to the ancestor, reverting the
\* accounts block by block.
RevertChain(txn, current, ancestor_hash, revert_chain, logs) ==
  IF current.hash = ancestor_hash
  THEN RevertWalk(None, txn, revert_chain, logs)
  ELSE IF is_macro(current.info.head)
  THEN RevertWalk("panic: Trying to rebranch across macro block",
                  txn, revert_chain, logs)
  ELSE IF ~has_chain_info(txn.store, parent_hash(current.info.head))
  THEN RevertWalk("panic: Corrupted store: Failed to find main chain predecessor while rebranching",
                  txn, revert_chain, logs)
  ELSE RevertStep(txn, current, ancestor_hash, revert_chain, logs,
                  revert_accounts(current.info.head, txn))

RECURSIVE CommitFork(_, _, _, _)
RECURSIVE CommitStep(_, _, _, _, _)
\* CommitStep that goes on with the write transaction as it was before the
\* commit of fork_chain[i].
CommitStep_keeps_txn(txn, fork_chain, i, logs, r) ==
  IF ~r.ok THEN [failed |-> i, txn |-> txn, logs |-> logs]
  ELSE CommitFork(txn, fork_chain, i - 1, Append(logs, r.log))

\* One step of the commit of the fork chain once check_and_commit gave r for
\* fork_chain[i].
CommitStep(txn, fork_chain, i, logs, r) ==
  IF ~r.ok THEN [failed |-> i, txn |-> txn, logs |-> logs]
  ELSE CommitFork(r.txn, fork_chain, i - 1, Append(logs, r.log))

\* check_and_commit of fork_chain[i], fork_chain[i-1], ..., fork_chain[1];
\* failed is the index of the block that failed, 0 when none did.
CommitFork(txn, fork_chain, i, logs) ==
  IF i = 0 THEN [failed |-> 0, txn |-> txn, logs |-> logs]
  ELSE CommitStep(txn, fork_chain, i, logs,
                  check_and_commit(fork_chain[i].info.head, txn))

\* RemoveFork that removes the offending block alone.
RemoveFork_offender_only(store, fork_chain, j, height) ==
  IF j = 0 THEN store ELSE remove_chain_info(store, fork_chain[j].hash, height)

RECURSIVE RemoveFork(_, _, _, _)
\* remove_chain_info of fork_chain[j], ..., fork_chain[1], each at height.
RemoveFork(store, fork_chain, j, height) ==
  IF j = 0 THEN store
  ELSE RemoveFork(remove_chain_info(store, fork_chain[j].hash, height),
                  fork_chain, j - 1, height)

RECURSIVE UnsetMainChain_keeps_successor(_, _, _)
\* UnsetMainChain that leaves main_chain_successor as it is.
UnsetMainChain_keeps_successor(store, revert_chain, k) ==
  IF k > Len(revert_chain) THEN store
  ELSE UnsetMainChain_keeps_successor(
         put_chain_info(store, revert_chain[k].hash,
                        [revert_chain[k].info EXCEPT !.on_main_chain = FALSE]),
         revert_chain, k + 1)

RECURSIVE UnsetMainChain(_, _, _)
\* The store after the blocks of the revert chain were taken off the main
\* chain.
UnsetMainChain(store, revert_chain, k) ==
  IF k > Len(revert_chain) THEN store
  ELSE UnsetMainChain(
         put_chain_info(store, revert_chain[k].hash,
                        [revert_chain[k].info EXCEPT !.on_main_chain = FALSE,
                                                     !.main_chain_successor = NoHash]),
         revert_chain, k + 1)

\* fork_chain[i] as it is put on the main chain.
ForkInfo(fork_chain, i) ==
  [fork_chain[i].info EXCEPT
     !.on_main_chain = TRUE,
     !.main_chain_successor = IF i > 1 THEN fork_chain[i - 1].hash ELSE NoHash]

RECURSIVE SetMainChain(_, _, _)
SetMainChain(store, fork_chain, i) ==
  IF i = 0 THEN store
  ELSE SetMainChain(put_chain_info(store, fork_chain[i].hash, ForkInfo(fork_chain, i)),
                    fork_chain, i - 1)

\* Reversed that keeps the order of the chain.
Reversed_same_order(chain) ==
  [i \in 1..Len(chain) |-> [hash |-> chain[i].hash, block |-> chain[i].info.head]]

\* The (hash, block) pairs of a chain, last entry first.
Reversed(chain) ==
  [i \in 1..Len(chain) |->
     [hash |-> chain[Len(chain) + 1 - i].hash,
      block |-> chain[Len(chain) + 1 - i].info.head]]

\* A finality guard that never fires.
AncestorFinalized_never(ancestor, state) == FALSE

\* The finality guard of rebranch: the common ancestor lies below the latest
\* macro block.
AncestorFinalized(ancestor, state) ==
  block_number(ancestor.info.head) < block_number(state.macro_info.head)

\* rebranch with no finality guard and no revert walk: it puts the fork chain
\* on the main chain wherever it branches off, and takes the accounts the tip
\* of the fork chain commits to.
rebranch_unguarded(store, accounts, state, block_hash, chain_info, forks) ==
  LET fork_chain == FindAncestor(store, Entry(block_hash, chain_info), << >>).fork_chain
      new_head_info == ForkInfo(fork_chain, 1)
      adopted == [i \in 1..Len(fork_chain) |->
                    Entry(fork_chain[i].hash, ForkInfo(fork_chain, i))]
      event == [type |-> "Rebranched", reverted_blocks |-> << >>,
                adopted_blocks |-> Reversed(adopted)]
  IN Outcome("Rebranched",
             set_head(SetMainChain(store, fork_chain, Len(fork_chain)), block_hash),
             StateAfter(chain_info.head),
             UpdateState(state, block_hash, new_head_info,
                         is_election_block_at(block_number(new_head_info.head))),
             << event >>, << >>, forks)

\* rebranch once the fork chain was committed (or a block of it failed).
RebranchCommitted(store, accounts, state, forks, fork_chain, ancestor, revert_chain, committed) ==
  IF committed.failed # 0
  THEN Outcome("InvalidFork",
               RemoveFork(store, fork_chain, committed.failed,
                          block_number(fork_chain[committed.failed].info.head)),
               accounts, state, << >>, << >>, forks)
  ELSE
    LET s1 == UnsetMainChain(committed.txn.store, revert_chain, 1)
        s2 == put_chain_info(s1, ancestor.hash,
                [ancestor.info EXCEPT
                   !.main_chain_successor = fork_chain[Len(fork_chain)].hash])
        s3 == SetMainChain(s2, fork_chain, Len(fork_chain))
        new_head_hash == fork_chain[1].hash
        new_head_info == ForkInfo(fork_chain, 1)
        s4 == set_head(s3, new_head_hash)
        adopted == [i \in 1..Len(fork_chain) |->
                      Entry(fork_chain[i].hash, ForkInfo(fork_chain, i))]
        event == [type |-> "Rebranched",
                  reverted_blocks |-> Reversed(revert_chain),
                  adopted_blocks |-> Reversed(adopted)]
    IN Outcome("Rebranched", s4, committed.txn.accounts,
               UpdateState(state, new_head_hash, new_head_info,
                           is_election_block_at(block_number(new_head_info.head))),
               << event >>, committed.logs, forks)

\* rebranch once the main chain was reverted to the ancestor (or the revert
\* walk panicked).
RebranchReverted(store, accounts, state, forks, fork_chain, ancestor, reverted) ==
  IF reverted.panic # None
  THEN Outcome(reverted.panic, store, accounts, state, << >>, << >>, forks)
  ELSE RebranchCommitted(store, accounts, state, forks, fork_chain, ancestor,
                         reverted.revert_chain,
                         CommitFork(reverted.txn, fork_chain, Len(fork_chain),
                                    reverted.logs))

\* rebranch once the fork walk gave walk: the finality guard and the revert
\* walk.
RebranchWalked(store, accounts, state, forks, walk) ==
  IF ~walk.ok
  THEN Outcome("panic: Corrupted store: Failed to find fork predecessor while rebranching",
               store, accounts, state, << >>, << >>, forks)
  ELSE IF AncestorFinalized(walk.ancestor, state)
  THEN Outcome("InvalidFork", store, accounts, state, << >>, << >>, forks)
  ELSE RebranchReverted(store, accounts, state, forks, walk.fork_chain,
                        walk.ancestor,
                        RevertChain(write_transaction(store, accounts),
                                    Entry(state.head_hash, state.main_chain),
                                    walk.ancestor.hash, << >>, << >>))

rebranch(store, accounts, state, block_hash, chain_info, forks) ==
  RebranchWalked(store, accounts, state, forks,
                 FindAncestor(store, Entry(block_hash, chain_info), << >>))

ChainOrderings == {"Extend", "Superior", "Inferior", "Unknown"}

\* ChainOrdering::order_chains: the verdicts the ordering may give.  A block on
\* the head extends; the verdict on any other block is a deterministic
\* tie-break the specification leaves to the configuration.
order_chains(state, block, prev_info) ==
  IF parent_hash(block) = state.head_hash THEN {"Extend"}
  ELSE {"Superior", "Inferior", "Unknown"}

\* DetectForks that does not compare the entropy.
DetectForks_any_entropy(store, block, prev_info) ==
  IF is_skip(block) \/ ~is_micro(block) THEN {}
  ELSE {[header1 |-> block, header2 |-> other,
         prev_vrf_seed |-> entropy(prev_info.head)] :
          other \in {b \in get_blocks_at(store, block_number(block)) :
                       is_micro(b) /\ ~is_skip(b)}}

\* The fork proofs the fork detection of do_push notifies.
DetectForks(store, block, prev_info) ==
  IF is_skip(block) \/ ~is_micro(block) THEN {}
  ELSE {[header1 |-> block, header2 |-> other,
         prev_vrf_seed |-> entropy(prev_info.head)] :
          other \in {b \in get_blocks_at(store, block_number(block)) :
                       /\ is_micro(b) /\ ~is_skip(b)
                       /\ entropy(block) = entropy(b)}}

\* StoreOffMain that makes the stored block the head of the store.
StoreOffMain_sets_head(store, block_hash, chain_info) ==
  set_head(put_chain_info(store, block_hash, chain_info), block_hash)

\* The store after do_push stored a block of an inferior or unknown chain.
StoreOffMain(store, block_hash, chain_info) ==
  put_chain_info(store, block_hash, chain_info)

\* EarlyStage whose finality gate lets the blocks of the height of the last
\* macro block through.
EarlyStage_strict_gate(store, state, block, trusted, proposer) ==
  IF block_number(block) < last_macro_block(block_number(state.main_chain.head))
  THEN "gate"
  ELSE IF has_chain_info(store, hash(block)) THEN "known"
  ELSE IF ~has_chain_info(store, parent_hash(block)) THEN "parent"
  ELSE IF ~proposer THEN "proposer"
  ELSE IF ~verify_block_header(block, ~trusted) THEN "header"
  ELSE IF ~verify_block_justification(block, ~trusted) THEN "justification"
  ELSE IF ~verify_block_body(block) THEN "body"
  ELSE "order"

\* EarlyStage that looks the block up in the store before the finality gate.
EarlyStage_known_first(store, state, block, trusted, proposer) ==
  IF has_chain_info(store, hash(block)) THEN "known"
  ELSE IF block_number(block) <= last_macro_block(block_number(state.main_chain.head))
  THEN "gate"
  ELSE IF ~has_chain_info(store, parent_hash(block)) THEN "parent"
  ELSE IF ~proposer THEN "proposer"
  ELSE IF ~verify_block_header(block, ~trusted) THEN "header"
  ELSE IF ~verify_block_justification(block, ~trusted) THEN "justification"
  ELSE IF ~verify_block_body(block) THEN "body"
  ELSE "order"

\* EarlyStage that does not look the block up in the store.
EarlyStage_no_known(store, state, block, trusted, proposer) ==
  IF block_number(block) <= last_macro_block(block_number(state.main_chain.head))
  THEN "gate"
  ELSE IF ~has_chain_info(store, parent_hash(block)) THEN "parent"
  ELSE IF ~proposer THEN "proposer"
  ELSE IF ~verify_block_header(block, ~trusted) THEN "header"
  ELSE IF ~verify_block_justification(block, ~trusted) THEN "justification"
  ELSE IF ~verify_block_body(block) THEN "body"
  ELSE "order"

\* EarlyStage that goes on when the proposer of the slot is not found.
EarlyStage_no_proposer(store, state, block, trusted, proposer) ==
  IF block_number(block) <= last_macro_block(block_number(state.main_chain.head))
  THEN "gate"
  ELSE IF has_chain_info(store, hash(block)) THEN "known"
  ELSE IF ~has_chain_info(store, parent_hash(block)) THEN "parent"
  ELSE IF ~verify_block_header(block, ~trusted) THEN "header"
  ELSE IF ~verify_block_justification(block, ~trusted) THEN "justification"
  ELSE IF ~verify_block_body(block) THEN "body"
  ELSE "order"

\* The stage of do_push at which the push of block ends before the chain
\* ordering is computed, or "order" when it gets that far.
EarlyStage(store, state, block, trusted, proposer) ==
  IF block_number(block) <= last_macro_block(block_number(state.main_chain.head))
  THEN "gate"
  ELSE IF has_chain_info(store, hash(block)) THEN "known"
  ELSE IF ~has_chain_info(store, parent_hash(block)) THEN "parent"
  ELSE IF ~proposer THEN "proposer"
  ELSE IF ~verify_block_header(block, ~trusted) THEN "header"
  ELSE IF ~verify_block_justification(block, ~trusted) THEN "justification"
  ELSE IF ~verify_block_body(block) THEN "body"
  ELSE "order"

\* proposer: whether get_proposer_at finds the slot of the block; order: the
\* verdict of the chain ordering.
do_push(store, accounts, state, block, trusted, proposer, order) ==
  LET stage == EarlyStage(store, state, block, trusted, proposer)
      unchanged(result, forks) ==
        Outcome(result, store, accounts, state, << >>, << >>, forks)
  IN
  CASE stage = "gate" -> unchanged("Ignored", {})
    [] stage = "known" -> unchanged("Known", {})
    [] stage \in {"parent", "proposer"} -> unchanged("Orphan", {})
    [] stage = "header" -> unchanged("InvalidBlock(Header)", {})
    [] stage = "justification" -> unchanged("InvalidBlock(InvalidJustification)", {})
    [] stage = "body" -> unchanged("InvalidBlock(Body)", {})
    [] stage = "order" ->
       LET prev_info == get_chain_info(store, parent_hash(block))
           forks == DetectForks(store, block, prev_info)
           chain_info == from_block(block)
       IN CASE order = "Extend" ->
                 extend(store, accounts, state, hash(chain_info.head), chain_info,
                        prev_info, forks)
            [] order = "Superior" ->
                 rebranch(store, accounts, state, hash(chain_info.head), chain_info,
                          forks)
            [] order \in {"Inferior", "Unknown"} ->
                 Outcome(IF order = "Inferior" THEN "Ignored" ELSE "Forked",
                         StoreOffMain(store, hash(chain_info.head), chain_info),
                         accounts, state, << >>, << >>, forks)

(* ------------------------------ write transactions -------------------- *)
\* The calls on write transactions that a call of do_push makes, in order:
\* "open" for write_transaction(), "commit" and "abort" for the two ways the
\* code ends one.

\* ExtendTransactions that returns the error without the abort.
ExtendTransactions_no_abort(store, accounts, chain_info) ==
  IF check_and_commit(chain_info.head, write_transaction(store, accounts)).ok
  THEN << "open", "commit" >>
  ELSE << "open" >>

\* extend: the transaction is aborted when check_and_commit fails and
\* committed with the new head otherwise.
ExtendTransactions(store, accounts, chain_info) ==
  IF check_and_commit(chain_info.head, write_transaction(store, accounts)).ok
  THEN << "open", "commit" >>
  ELSE << "open", "abort" >>

\* rebranch once the revert walk gave reverted: a panic of the walk leaves
\* the transaction as it is; a failed re-commit aborts it and removes the
\* fork blocks in a second one.
RevertedTransactions(fork_chain, reverted) ==
  IF reverted.panic # None THEN << "open" >>
  ELSE IF CommitFork(reverted.txn, fork_chain, Len(fork_chain),
                     reverted.logs).failed # 0
  THEN << "open", "abort", "open", "commit" >>
  ELSE << "open", "commit" >>

\* rebranch once the fork walk gave walk: no write transaction before the
\* finality guard.
WalkedTransactions(store, accounts, state, walk) ==
  IF ~walk.ok \/ AncestorFinalized(walk.ancestor, state) THEN << >>
  ELSE RevertedTransactions(walk.fork_chain,
         RevertChain(write_transaction(store, accounts),
                     Entry(state.head_hash, state.main_chain),
                     walk.ancestor.hash, << >>, << >>))

\* do_push: none before the chain ordering; then those of extend, those of
\* rebranch, or the one that stores the block off the main chain.
PushTransactions(store, accounts, state, block, trusted, proposer, order) ==
  IF EarlyStage(store, state, block, trusted, proposer) # "order" THEN << >>
  ELSE CASE order = "Extend" ->
              ExtendTransactions(store, accounts, from_block(block))
         [] order = "Superior" ->
              WalkedTransactions(store, accounts, state,
                FindAncestor(store, Entry(hash(block), from_block(block)), << >>))
         [] OTHER -> << "open", "commit" >>

(* ------------------------------ state machine -------------------------- *)
VARIABLES
  chain_store,   \* the persisted chain store: chain_info, height_index, head, receipts
  accounts,      \* the persisted accounts trie
  state,         \* the in-memory BlockchainState
  block,         \* the block of the latest push
  result,        \* the PushResult or PushError of the latest push
  events,        \* the BlockchainEvents the latest push notified, in order
  block_logs,    \* the block logs the latest push notified, in order
  fork_events,   \* the fork proofs the latest push notified
  accounts_before, \* the accounts trie as the latest push found it
  lock,          \* the RwLock around the blockchain: who holds it in which mode
  pc,            \* where each thread stands in its push or its read
  pending,       \* per pusher: its block, the outcome of its pipeline, the state it found
  notified,      \* which notifier was called under which mode of the lock
  action_rx,     \* per node: the NetworkActions sent to its swarm task, in order
  task_state,    \* per node: the TaskState of its swarm task
  swarm,         \* the libp2p swarms: records, queries under way, events to come
  requests       \* the calls of the network interface so far, with their answers

lock_vars == << lock, pc, pending, notified >>

net_vars == << action_rx, task_state, swarm, requests >>

vars == << chain_store, accounts, state, block, result, events, block_logs,
           fork_events, accounts_before, lock, pc, pending, notified,
           action_rx, task_state, swarm, requests >>

\* The threads that push and the threads that only read.
Pushers == {"p1", "p2"}
Readers == {"r1"}
NoThread == "none"
NoPending == << >>

\* The nodes of the network, connected to each other, and what they put,
\* get, subscribe to and publish.
Nodes == {"n1", "n2"}
Keys == {"foo"}
Topics == {"hello_world", "other"}
Values == {42, 420}
\* The item the nodes publish.
Published == 42
\* No record under a key.
NoRecord == << >>
\* TaskState::default(): no pending put, no pending get, no topic.
NoTasks == [dht_puts |-> << >>, dht_gets |-> << >>, gossip_topics |-> << >>]

GenesisInfo ==
  [head |-> Genesis, on_main_chain |-> TRUE, main_chain_successor |-> NoHash]

Init ==
  /\ chain_store = [chain_info |-> (Genesis :> GenesisInfo),
                    height_index |-> [n \in IndexedHeights |->
                                        IF n = 0 THEN {Genesis} ELSE {}],
                    head |-> Genesis,
                    receipts |-> << >>]
  /\ accounts = GenesisAccounts
  /\ state = [main_chain |-> GenesisInfo, head_hash |-> Genesis,
              macro_info |-> GenesisInfo, macro_head_hash |-> Genesis,
              election_head |-> Genesis, election_head_hash |-> Genesis,
              current_slots |-> get_validators(Genesis),
              previous_slots |-> NoHash]
  /\ block = Genesis
  /\ result = "Init"
  /\ events = << >>
  /\ block_logs = << >>
  /\ fork_events = {}
  /\ accounts_before = GenesisAccounts
  /\ lock = [upgradable |-> NoThread, writer |-> FALSE, readers |-> {}]
  /\ pc = [t \in Pushers \cup Readers |-> "idle"]
  /\ pending = [p \in Pushers |-> NoPending]
  /\ notified = {}
  /\ action_rx = [n \in Nodes |-> << >>]
  /\ task_state = [n \in Nodes |-> NoTasks]
  /\ swarm = [records |-> [n \in Nodes |-> [k \in Keys |-> NoRecord]],
              subscribed |-> [n \in Nodes |-> {}],
              queries |-> {},
              events |-> [n \in Nodes |-> << >>],
              next_id |-> 1,
              foreign |-> 0]
  /\ requests = << >>

Stored == DOMAIN chain_store.chain_info

\* The blocks push is called with: the stored blocks, the blocks on a stored
\* block, and a block on the unknown parent of each stored block.
Candidates ==
  LET children == {Append(p, k) : p \in {q \in Stored : Len(q) < MaxHeight},
                                  k \in Kinds}
      known == {c \in children : c[Len(c)] \in KindsAt(Len(c))}
      orphans == {Append(Append(p, "H"), "A") :
                    p \in {q \in Stored : Len(q) + 1 < MaxHeight}}
  IN (Stored \cup known \cup orphans) \ {Genesis}

\* The blocks of the store and of its height index that are not on the chain
\* of the head.
OffMainChain(store) ==
  (DOMAIN store.chain_info
     \cup UNION {store.height_index[n] : n \in DOMAIN store.height_index})
  \ {SubSeq(store.head, 1, n) : n \in 0..Len(store.head)}

\* The PushResults and PushErrors.
Results ==
  {"Extended", "Rebranched", "Forked", "Ignored", "Known",
   "Orphan", "InvalidFork", "DuplicateTransaction", "AccountsError",
   "InvalidBlock(Header)", "InvalidBlock(InvalidJustification)",
   "InvalidBlock(Body)", "InvalidBlock(AccountsHashMismatch)"}

\* The latest call ended in a panic: the node has halted.
Panicked == result \notin Results \cup {"Init"}

\* The choices do_push leaves open on block b: whether the proposer oracle
\* finds the slot, and the verdict of the chain ordering.
Choices(b, trust) ==
  {c \in [proposer : BOOLEAN, order : ChainOrderings] :
     /\ c.proposer \/ EarlyStage(chain_store, state, b, trust, TRUE)
                         \notin {"gate", "known", "parent"}
     /\ IF EarlyStage(chain_store, state, b, trust, c.proposer) = "order"
        THEN c.order \in order_chains(state, b,
                                      get_chain_info(chain_store, parent_hash(b)))
        ELSE c.order = "Extend"}

\* The outcome of a call of do_push in the current state.
Call(b, trust, c) ==
  do_push(chain_store, accounts, state, b, trust, c.proposer, c.order)

\* A call that changes the store, the accounts or the in-memory state, or
\* that panics.
Effective(out) ==
  \/ out.store # chain_store
  \/ out.accounts # accounts
  \/ out.state # state
  \/ out.result \notin Results

\* What a call of do_push on b that gave out leaves behind.  block, result,
\* events, block_logs and fork_events keep the latest call that was Effective;
\* a call that is not leaves every variable as it is, and what it returns and
\* notifies is the outcome Call gives.
Installs(b, out) ==
  IF Effective(out)
  THEN /\ chain_store' = out.store
       /\ accounts' = out.accounts
       /\ state' = out.state
       /\ block' = b
       /\ result' = out.result
       /\ events' = out.events
       /\ block_logs' = out.logs
       /\ fork_events' = out.forks
       /\ accounts_before' = accounts
       /\ UNCHANGED << lock_vars, net_vars >>
  ELSE UNCHANGED vars

\* A call of do_push on b that gave out, within the bound on the forks.
Returns(b, out) ==
  /\ Cardinality(OffMainChain(out.store)) <= MaxForked
  /\ Installs(b, out)

\* push_wrapperfn: one whole call of do_push.
push_wrapperfn(b, trust) ==
  /\ ~Panicked
  /\ \E c \in Choices(b, trust) : Returns(b, Call(b, trust, c))

push == \E b \in Candidates : push_wrapperfn(b, FALSE)
\* A trusted push differs from a push in the justification check alone.
trusted_push ==
  \E b \in {c \in Candidates : content(c).fails = "justification"} :
     push_wrapperfn(b, TRUE)

Next == push \/ trusted_push

Spec == Init /\ [][Next]_vars

(* ------------------------------ the state lock ------------------------- *)
\* Pushes and reads as threads that take the lock around the blockchain.
\* The forks of this specification stay at or below LockMaxHeight.
LockMaxHeight == 3

\* The lock admits one upgradable reader, next to any number of readers.
CanUpgradableRead(l) == l.upgradable = NoThread /\ ~l.writer
\* The lock admits a reader unless it is held in writer mode.
CanRead(l) == ~l.writer
\* An upgrade to writer mode waits until the readers have left.
CanUpgrade(l) == l.readers = {}

\* The mode in which p holds the lock.
Mode(p) ==
  CASE lock.upgradable # p -> "none"
    [] lock.writer -> "writer"
    [] OTHER -> "upgradable"

InPush(p) == pc[p] # "idle"

\* The caller of push takes the upgradable read guard that push consumes.
upgradable_read(p) ==
  /\ ~Panicked
  /\ pc[p] = "idle"
  /\ CanUpgradableRead(lock)
  /\ lock' = [lock EXCEPT !.upgradable = p]
  /\ pc' = [pc EXCEPT ![p] = "do_push"]
  /\ UNCHANGED net_vars
  /\ UNCHANGED << chain_store, accounts, state, block, result, events,
                  block_logs, fork_events, accounts_before, pending, notified >>

\* The notifier calls so far, with one more of the kind under the mode, when
\* there is something to notify.
Notified(kind, something, mode) ==
  IF something THEN notified \cup {[kind |-> kind, mode |-> mode]} ELSE notified

\* Committed whose write transaction is not committed.
Committed_uncommitted(p, b, out) ==
  /\ Cardinality(OffMainChain(out.store)) <= MaxForked
  /\ pending' = [pending EXCEPT ![p] = [block |-> b, out |-> out, pre |-> state,
                                         accounts |-> accounts,
                                         effective |-> Effective(out)]]
  /\ notified' = Notified("fork", out.forks # {}, Mode(p))
  /\ pc' = [pc EXCEPT ![p] = IF out.result \in {"Extended", "Rebranched"}
                             THEN "upgrade" ELSE "return"]
  /\ UNCHANGED net_vars
  /\ UNCHANGED << chain_store, accounts, state, block, result, events,
                  block_logs, fork_events, accounts_before, lock >>

\* do_push up to the commit of its write transaction: the checks, the fork
\* events, the ordering and the storage of what extend, rebranch or the
\* off-main store write.  The in-memory state is still the one found.
Committed(p, b, out) ==
  /\ Cardinality(OffMainChain(out.store)) <= MaxForked
  /\ chain_store' = out.store
  /\ accounts' = out.accounts
  /\ pending' = [pending EXCEPT ![p] = [block |-> b, out |-> out, pre |-> state,
                                         accounts |-> accounts,
                                         effective |-> Effective(out)]]
  /\ notified' = Notified("fork", out.forks # {}, Mode(p))
  /\ pc' = [pc EXCEPT ![p] = IF out.result \in {"Extended", "Rebranched"}
                             THEN "upgrade" ELSE "return"]
  /\ UNCHANGED net_vars
  /\ UNCHANGED << state, block, result, events, block_logs, fork_events,
                  accounts_before, lock >>

\* Above LockMaxHeight the pushes only extend the head, by a skip block or by
\* a macro block, so that a batch and an epoch end.
LockCandidates ==
  {b \in Candidates :
     \/ block_number(b) <= LockMaxHeight
     \/ /\ parent_hash(b) = state.head_hash
        /\ is_macro(b) \/ is_skip(b)}

Pipeline(p) ==
  /\ pc[p] = "do_push"
  /\ \E b \in LockCandidates, trust \in BOOLEAN :
       \E c \in Choices(b, trust) : Committed(p, b, Call(b, trust, c))

\* upgrade_untimed in extend, upgrade in rebranch.
Upgrade_skipped(p) ==
  /\ pc[p] = "upgrade"
  /\ pc' = [pc EXCEPT ![p] = IF is_macro(pending[p].block)
                             THEN "macro_info" ELSE "main_chain"]
  /\ UNCHANGED net_vars
  /\ UNCHANGED << chain_store, accounts, state, block, result, events,
                  block_logs, fork_events, accounts_before, pending, notified,
                  lock >>

Upgrade(p) ==
  /\ pc[p] = "upgrade"
  /\ CanUpgrade(lock)
  /\ lock' = [lock EXCEPT !.writer = TRUE]
  /\ pc' = [pc EXCEPT ![p] = IF is_macro(pending[p].block)
                             THEN "macro_info" ELSE "main_chain"]
  /\ UNCHANGED net_vars
  /\ UNCHANGED << chain_store, accounts, state, block, result, events,
                  block_logs, fork_events, accounts_before, pending, notified >>

\* The assignments of a macro head: macro_info and macro_head_hash, and on an
\* election block election_head, election_head_hash and the slots.
WriteMacro(p) ==
  /\ pc[p] = "macro_info"
  /\ state' = [pending[p].out.state EXCEPT !.main_chain = state.main_chain,
                                           !.head_hash = state.head_hash]
  /\ pc' = [pc EXCEPT ![p] = "main_chain"]
  /\ UNCHANGED net_vars
  /\ UNCHANGED << chain_store, accounts, block, result, events, block_logs,
                  fork_events, accounts_before, pending, notified, lock >>

\* WriteMainChain that leaves state.main_chain as it is.
WriteMainChain_skipped(p) ==
  /\ pc[p] = "main_chain"
  /\ pc' = [pc EXCEPT ![p] = "head_hash"]
  /\ UNCHANGED net_vars
  /\ UNCHANGED << chain_store, accounts, state, block, result, events,
                  block_logs, fork_events, accounts_before, pending, notified,
                  lock >>

\* this.state.main_chain = chain_info
WriteMainChain(p) ==
  /\ pc[p] = "main_chain"
  /\ state' = [state EXCEPT !.main_chain = pending[p].out.state.main_chain]
  /\ pc' = [pc EXCEPT ![p] = "head_hash"]
  /\ UNCHANGED net_vars
  /\ UNCHANGED << chain_store, accounts, block, result, events, block_logs,
                  fork_events, accounts_before, pending, notified, lock >>

\* this.state.head_hash = block_hash
WriteHeadHash(p) ==
  /\ pc[p] = "head_hash"
  /\ state' = [state EXCEPT !.head_hash = pending[p].out.state.head_hash]
  /\ pc' = [pc EXCEPT ![p] = "downgrade"]
  /\ UNCHANGED net_vars
  /\ UNCHANGED << chain_store, accounts, block, result, events, block_logs,
                  fork_events, accounts_before, pending, notified, lock >>

\* downgrade_to_upgradable
Downgrade_unlocks(p) ==
  /\ pc[p] = "downgrade"
  /\ lock' = [lock EXCEPT !.writer = FALSE, !.upgradable = NoThread]
  /\ pc' = [pc EXCEPT ![p] = "notify"]
  /\ UNCHANGED net_vars
  /\ UNCHANGED << chain_store, accounts, state, block, result, events,
                  block_logs, fork_events, accounts_before, pending, notified >>

Downgrade_skipped(p) ==
  /\ pc[p] = "downgrade"
  /\ pc' = [pc EXCEPT ![p] = "notify"]
  /\ UNCHANGED net_vars
  /\ UNCHANGED << chain_store, accounts, state, block, result, events,
                  block_logs, fork_events, accounts_before, pending, notified,
                  lock >>

Downgrade(p) ==
  /\ pc[p] = "downgrade"
  /\ lock' = [lock EXCEPT !.writer = FALSE]
  /\ pc' = [pc EXCEPT ![p] = "notify"]
  /\ UNCHANGED net_vars
  /\ UNCHANGED << chain_store, accounts, state, block, result, events,
                  block_logs, fork_events, accounts_before, pending, notified >>

\* Notify that hands the block logs to the log notifier in the same step.
Notify_with_logs(p) ==
  /\ pc[p] = "notify"
  /\ CanRead(lock)
  /\ events' = pending[p].out.events
  /\ block_logs' = pending[p].out.logs
  /\ notified' = Notified("event", TRUE, Mode(p))
  /\ pc' = [pc EXCEPT ![p] = "notify_logs"]
  /\ UNCHANGED net_vars
  /\ UNCHANGED << chain_store, accounts, state, block, result, fork_events,
                  accounts_before, pending, lock >>

\* notifier.notify(event): the listeners run inside the call, and one that
\* reads the blockchain takes the lock in read mode and gives it back before
\* it returns.
Notify(p) ==
  /\ pc[p] = "notify"
  /\ CanRead(lock)
  /\ events' = pending[p].out.events
  /\ notified' = Notified("event", TRUE, Mode(p))
  /\ pc' = [pc EXCEPT ![p] = "notify_logs"]
  /\ UNCHANGED net_vars
  /\ UNCHANGED << chain_store, accounts, state, block, result, block_logs,
                  fork_events, accounts_before, pending, lock >>

\* log_notifier.notify (extend) and log_notifier.notify_vec (rebranch), after
\* the event.
NotifyLogs(p) ==
  /\ pc[p] = "notify_logs"
  /\ CanRead(lock)
  /\ block_logs' = pending[p].out.logs
  /\ notified' = Notified("log", TRUE, Mode(p))
  /\ pc' = [pc EXCEPT ![p] = "return"]
  /\ UNCHANGED net_vars
  /\ UNCHANGED << chain_store, accounts, state, block, result, events,
                  fork_events, accounts_before, pending, lock >>

\* push returns: the guard it consumed is dropped.  As in Returns, block,
\* result, fork_events and accounts_before keep the latest call that was
\* Effective.
Return(p) ==
  /\ pc[p] = "return"
  /\ lock' = [lock EXCEPT !.upgradable = IF @ = p THEN NoThread ELSE @]
  /\ IF pending[p].effective
     THEN /\ block' = pending[p].block
          /\ result' = pending[p].out.result
          /\ fork_events' = pending[p].out.forks
          /\ accounts_before' = pending[p].accounts
     ELSE UNCHANGED << block, result, fork_events, accounts_before >>
  /\ pending' = [pending EXCEPT ![p] = NoPending]
  /\ pc' = [pc EXCEPT ![p] = "idle"]
  /\ UNCHANGED net_vars
  /\ UNCHANGED << chain_store, accounts, state, events, block_logs, notified >>

\* A query thread takes the lock in read mode.
read(r) ==
  /\ pc[r] = "idle"
  /\ CanRead(lock)
  /\ lock' = [lock EXCEPT !.readers = @ \cup {r}]
  /\ pc' = [pc EXCEPT ![r] = "reading"]
  /\ UNCHANGED net_vars
  /\ UNCHANGED << chain_store, accounts, state, block, result, events,
                  block_logs, fork_events, accounts_before, pending, notified >>

\* The query thread drops its read guard.
read_unlock(r) ==
  /\ pc[r] = "reading"
  /\ lock' = [lock EXCEPT !.readers = @ \ {r}]
  /\ pc' = [pc EXCEPT ![r] = "idle"]
  /\ UNCHANGED net_vars
  /\ UNCHANGED << chain_store, accounts, state, block, result, events,
                  block_logs, fork_events, accounts_before, pending, notified >>

LockNext ==
  \/ \E p \in Pushers : upgradable_read(p)
  \/ \E p \in Pushers : Pipeline(p)
  \/ \E p \in Pushers : Upgrade(p)
  \/ \E p \in Pushers : WriteMacro(p)
  \/ \E p \in Pushers : WriteMainChain(p)
  \/ \E p \in Pushers : WriteHeadHash(p)
  \/ \E p \in Pushers : Downgrade(p)
  \/ \E p \in Pushers : Notify(p)
  \/ \E p \in Pushers : NotifyLogs(p)
  \/ \E p \in Pushers : Return(p)
  \/ \E r \in Readers : read(r)
  \/ \E r \in Readers : read_unlock(r)

LockSpec == Init /\ [][LockNext]_vars

(* ------------------------------ the network ---------------------------- *)
\* The calls of the network interface of this specification.
MaxRequests == 3
\* The query results and messages that come from outside these calls.
MaxForeign == 1

chain_vars ==
  << chain_store, accounts, state, block, result, events, block_logs,
     fork_events, accounts_before >>

\* An i32 as its four bytes, highest first, and back.
Serialize(x) ==
  << (x \div 16777216) % 256, (x \div 65536) % 256, (x \div 256) % 256, x % 256 >>
Deserialize(data) ==
  ((data[1] * 256 + data[2]) * 256 + data[3]) * 256 + data[4]

\* f without the key k, and f with v under k.
Without(f, k) == [x \in DOMAIN f \ {k} |-> f[x]]
With(f, k, v) == [x \in DOMAIN f \cup {k} |-> IF x = k THEN v ELSE f[x]]

\* The values whose dht_put under key k has returned Ok.
PutsOk(k) ==
  {requests[i].item : i \in {j \in DOMAIN requests :
      /\ requests[j].op = "dht_put" /\ requests[j].name = k
      /\ requests[j].answers = << [ok |-> TRUE, value |-> None] >>}}

\* A call of the interface: its answers are what its oneshot channel is sent,
\* its stream what the receiver of its mpsc channel yields, closed when the
\* sender is dropped; seen is what a dht_get finds put and returned when it
\* is called, and the other nodes that are subscribed to the topic of a
\* publish when the swarm publishes it; query is the id of the query started
\* for it (0: none yet).
Request(op, n, name, item) ==
  [op |-> op, node |-> n, name |-> name, item |-> item, answers |-> << >>,
   stream |-> << >>, closed |-> FALSE,
   seen |-> IF op = "dht_get" THEN PutsOk(name) ELSE {},
   query |-> 0]

\* The call sends its NetworkAction to the swarm task of the node.
Send(n, request, action) ==
  /\ Len(requests) < MaxRequests
  /\ requests' = Append(requests, request)
  /\ action_rx' = [action_rx EXCEPT ![n] = Append(@, action)]
  /\ UNCHANGED << task_state, swarm, chain_vars, lock_vars >>

dht_put(n, k, v) ==
  Send(n, Request("dht_put", n, k, v),
       [type |-> "DhtPut", name |-> k, data |-> Serialize(v),
        output |-> Len(requests) + 1])

dht_get(n, k) ==
  Send(n, Request("dht_get", n, k, None),
       [type |-> "DhtGet", name |-> k, data |-> << >>,
        output |-> Len(requests) + 1])

subscribe(n, t) ==
  Send(n, Request("subscribe", n, t, None),
       [type |-> "Subscribe", name |-> t, data |-> << >>,
        output |-> Len(requests) + 1])

publish(n, t, v) ==
  Send(n, Request("publish", n, t, v),
       [type |-> "Publish", name |-> t, data |-> Serialize(v),
        output |-> Len(requests) + 1])

\* output.send(answer) on the oneshot channel of request r.
Answered(r, answer) == [requests EXCEPT ![r].answers = Append(@, answer)]

\* kademlia.get_record: a query with a new id.
StartQuery(n, kind, action) ==
  [swarm EXCEPT !.queries = @ \cup {[id |-> swarm.next_id, node |-> n,
                                     kind |-> kind, name |-> action.name,
                                     data |-> action.data]},
                !.next_id = @ + 1]

\* kademlia.put_record: the record goes into the store of the node and a
\* query with a new id takes it to the peers.
StartPut(n, action) ==
  [StartQuery(n, "put", action) EXCEPT !.records[n][action.name] = action.data]

\* gossipsub.publish: the message goes to every other node that is subscribed
\* to the topic.
Gossiped(n, action) ==
  [swarm EXCEPT !.events =
     [m \in Nodes |->
        IF m # n /\ action.name \in swarm.subscribed[m]
        THEN Append(@[m], [type |-> "Message", peer |-> n,
                           topics |-> {action.name}, data |-> action.data])
        ELSE @[m]]]

\* perform_action of the swarm task of node n on the action it receives;
\* stored: whether the record store takes the record of a DhtPut.
Performed(n, action, stored) ==
  /\ action_rx' = [action_rx EXCEPT ![n] = Tail(@)]
  /\ CASE action.type = "DhtGet" ->
            /\ swarm' = StartQuery(n, "get", action)
            /\ task_state' = [task_state EXCEPT ![n].dht_gets =
                                With(@, swarm.next_id, action.output)]
            /\ requests' = [requests EXCEPT ![action.output].query = swarm.next_id]
       [] action.type = "DhtPut" /\ stored ->
            /\ swarm' = StartPut(n, action)
            /\ task_state' = [task_state EXCEPT ![n].dht_puts =
                                With(@, swarm.next_id, action.output)]
            /\ requests' = [requests EXCEPT ![action.output].query = swarm.next_id]
       [] action.type = "DhtPut" /\ ~stored ->
            /\ requests' = Answered(action.output, [ok |-> FALSE, value |-> "DhtPutRecord"])
            /\ UNCHANGED << swarm, task_state >>
       [] action.type = "Subscribe" /\ action.name \notin swarm.subscribed[n] ->
            /\ swarm' = [swarm EXCEPT !.subscribed[n] = @ \cup {action.name}]
            /\ task_state' = [task_state EXCEPT ![n].gossip_topics =
                                With(@, action.name, action.output)]
            /\ UNCHANGED requests
       [] action.type = "Subscribe" /\ action.name \in swarm.subscribed[n] ->
            /\ requests' = [requests EXCEPT ![action.output].closed = TRUE]
            /\ UNCHANGED << swarm, task_state >>
       [] action.type = "Publish" ->
            /\ swarm' = Gossiped(n, action)
            /\ requests' = [Answered(action.output, [ok |-> TRUE, value |-> None])
                              EXCEPT ![action.output].seen =
                                {m \in Nodes \ {n} : action.name \in swarm.subscribed[m]}]
            /\ UNCHANGED task_state
  /\ UNCHANGED << chain_vars, lock_vars >>

perform_action(n) ==
  /\ action_rx[n] # << >>
  /\ \E stored \in BOOLEAN :
       /\ stored \/ Head(action_rx[n]).type = "DhtPut"
       /\ Performed(n, Head(action_rx[n]), stored)

\* The swarm with one more event for the swarm task of node n.
Emitted(sw, n, event) == [sw EXCEPT !.events[n] = Append(@, event)]

QueryResult(id, kind, ok, records) ==
  [type |-> "QueryResult", id |-> id, kind |-> kind, ok |-> ok,
   records |-> records]

\* Kademlia ends the put query q: the peers hold the record, and the node
\* that asked gets the result.
kad_put_done(q) ==
  /\ q \in swarm.queries /\ q.kind = "put"
  /\ swarm' = Emitted([swarm EXCEPT
                         !.queries = @ \ {q},
                         !.records = [m \in Nodes |->
                                        IF m = q.node THEN @[m]
                                        ELSE [@[m] EXCEPT ![q.name] = q.data]]],
                      q.node, QueryResult(q.id, "PutRecord", TRUE, << >>))
  /\ UNCHANGED << action_rx, task_state, requests, chain_vars, lock_vars >>

\* The records the nodes hold under key k.
Found(k) == {swarm.records[m][k] : m \in Nodes} \ {NoRecord}

\* The ways to list some of the records of S, each once.
Listings(S) ==
  {l \in UNION {[1..n -> S] : n \in 1..Cardinality(S)} :
     \A i, j \in DOMAIN l : i # j => l[i] # l[j]}

\* Kademlia ends the get query q: with the records it found, or with an
\* error when there is none.
kad_get_done(q) ==
  /\ q \in swarm.queries /\ q.kind = "get"
  /\ \E records \in IF Found(q.name) = {} THEN {<< >>} ELSE Listings(Found(q.name)) :
       swarm' = Emitted([swarm EXCEPT !.queries = @ \ {q}], q.node,
                        QueryResult(q.id, "GetRecord", records # << >>, records))
  /\ UNCHANGED << action_rx, task_state, requests, chain_vars, lock_vars >>

\* The result of a query that no call of the interface started, while a
\* call of the interface waits for the result of its own.
foreign_result(n) ==
  /\ swarm.foreign < MaxForeign
  /\ DOMAIN task_state[n].dht_gets \cup DOMAIN task_state[n].dht_puts # {}
  /\ swarm.events[n] = << >>
  /\ \E kind \in {"GetRecord", "PutRecord"} :
       swarm' = Emitted([swarm EXCEPT !.foreign = @ + 1], n,
                        QueryResult(0, kind, TRUE, << Serialize(0) >>))
  /\ UNCHANGED << action_rx, task_state, requests, chain_vars, lock_vars >>

\* A message of a peer outside Nodes, on every topic at once, to a node that
\* is subscribed to one of them and not to another.
foreign_message(n) ==
  /\ swarm.foreign < MaxForeign
  /\ swarm.subscribed[n] \notin {{}, Topics}
  /\ swarm' = Emitted([swarm EXCEPT !.foreign = @ + 1], n,
                      [type |-> "Message", peer |-> "outside", topics |-> Topics,
                       data |-> Serialize(7)])
  /\ UNCHANGED << action_rx, task_state, requests, chain_vars, lock_vars >>

\* What the caller of dht_get returns for the result of its query: the value
\* of the last record, deserialized.
GetAnswer(event) ==
  IF ~event.ok THEN [ok |-> FALSE, value |-> "DhtGetRecord"]
  ELSE IF event.records = << >> THEN [ok |-> TRUE, value |-> None]
  ELSE [ok |-> TRUE, value |-> Deserialize(event.records[Len(event.records)])]

PutAnswer(event) ==
  IF event.ok THEN [ok |-> TRUE, value |-> None]
  ELSE [ok |-> FALSE, value |-> "DhtPutRecord"]

\* Delivered that gives the message to the stream of every topic of the node.
Delivered_every_stream(topics, event) ==
  [r \in DOMAIN requests |->
     IF \E t \in DOMAIN topics : topics[t] = r
     THEN [requests[r] EXCEPT !.stream =
             Append(@, [item |-> Deserialize(event.data), peer |-> event.peer])]
     ELSE requests[r]]

\* The requests once the streams of the topics of a message got it.
Delivered(topics, event) ==
  [r \in DOMAIN requests |->
     IF \E t \in DOMAIN topics : t \in event.topics /\ topics[t] = r
     THEN [requests[r] EXCEPT !.stream =
             Append(@, [item |-> Deserialize(event.data), peer |-> event.peer])]
     ELSE requests[r]]

\* Handled that gives the result of a query of an unknown id to a pending
\* get or put.
Handled_unknown_answers(n, event, tasks) ==
  /\ swarm' = [swarm EXCEPT !.events[n] = Tail(@)]
  /\ CASE event.type = "QueryResult" /\ event.kind = "GetRecord"
            /\ event.id \in DOMAIN tasks.dht_gets ->
            /\ task_state' = [task_state EXCEPT ![n].dht_gets = Without(@, event.id)]
            /\ requests' = Answered(tasks.dht_gets[event.id], GetAnswer(event))
       [] event.type = "QueryResult" /\ event.kind = "PutRecord"
            /\ event.id \in DOMAIN tasks.dht_puts ->
            /\ task_state' = [task_state EXCEPT ![n].dht_puts = Without(@, event.id)]
            /\ requests' = Answered(tasks.dht_puts[event.id], PutAnswer(event))
       [] event.type = "QueryResult" /\ event.kind = "GetRecord"
            /\ event.id \notin DOMAIN tasks.dht_gets /\ tasks.dht_gets # << >> ->
            \E id \in DOMAIN tasks.dht_gets :
              /\ task_state' = [task_state EXCEPT ![n].dht_gets = Without(@, id)]
              /\ requests' = Answered(tasks.dht_gets[id], GetAnswer(event))
       [] event.type = "Message" ->
            /\ requests' = Delivered(tasks.gossip_topics, event)
            /\ UNCHANGED task_state
       [] OTHER -> UNCHANGED << task_state, requests >>
  /\ UNCHANGED << action_rx, chain_vars, lock_vars >>

\* handle_event of the swarm task of node n on the event of its swarm.
Handled(n, event, tasks) ==
  /\ swarm' = [swarm EXCEPT !.events[n] = Tail(@)]
  /\ CASE event.type = "QueryResult" /\ event.kind = "GetRecord"
            /\ event.id \in DOMAIN tasks.dht_gets ->
            /\ task_state' = [task_state EXCEPT ![n].dht_gets = Without(@, event.id)]
            /\ requests' = Answered(tasks.dht_gets[event.id], GetAnswer(event))
       [] event.type = "QueryResult" /\ event.kind = "PutRecord"
            /\ event.id \in DOMAIN tasks.dht_puts ->
            /\ task_state' = [task_state EXCEPT ![n].dht_puts = Without(@, event.id)]
            /\ requests' = Answered(tasks.dht_puts[event.id], PutAnswer(event))
       [] event.type = "Message" ->
            /\ requests' = Delivered(tasks.gossip_topics, event)
            /\ UNCHANGED task_state
       [] OTHER -> UNCHANGED << task_state, requests >>
  /\ UNCHANGED << action_rx, chain_vars, lock_vars >>

handle_event(n) ==
  /\ swarm.events[n] # << >>
  /\ Handled(n, Head(swarm.events[n]), task_state[n])

NetNext ==
  \/ \E n \in Nodes, k \in Keys, v \in Values : dht_put(n, k, v)
  \/ \E n \in Nodes, k \in Keys : dht_get(n, k)
  \/ \E n \in Nodes, t \in Topics : subscribe(n, t)
  \/ \E n \in Nodes, t \in Topics : publish(n, t, Published)
  \/ \E n \in Nodes : perform_action(n)
  \/ \E n \in Nodes : handle_event(n)
  \/ \E q \in swarm.queries : kad_put_done(q)
  \/ \E q \in swarm.queries : kad_get_done(q)
  \/ \E n \in Nodes : foreign_result(n)
  \/ \E n \in Nodes : foreign_message(n)

NetSpec == Init /\ [][NetNext]_vars

\* The loop of swarm_task selects between the event of the swarm and the
\* action of the interface, at random when both are ready: an event of the
\* swarm does not wait forever.
NetFairSpec == NetSpec /\ \A n \in Nodes : WF_vars(handle_event(n))

(* ------------------------------ long chains ---------------------------- *)
\* The same push on chains that reach the second election block and on
\* stores with one more fork block: the blocks are fewer at each block number
\* (a transaction at 1, 2 and next to the second election block, two macro
\* blocks at 3, skip blocks elsewhere).
DeepKindsAt(n) ==
  CASE n = 1 -> {"A"}
    [] n = 2 -> {"B", "C"}
    [] n = 3 -> {"A", "C"}
    [] n = DeepMaxHeight - 1 -> {"A", "C"}
    [] OTHER -> {"C"}

\* The blocks push is called with: the stored blocks and the blocks on a
\* stored block.
DeepCandidates ==
  LET children == {Append(p, k) : p \in {q \in Stored : Len(q) < DeepMaxHeight},
                                  k \in Kinds}
      known == {c \in children : c[Len(c)] \in DeepKindsAt(Len(c))}
  IN (Stored \cup known) \ {Genesis}

\* push: one whole call of do_push on a block of the long chains.
deep_push ==
  /\ ~Panicked
  /\ \E b \in DeepCandidates : \E c \in Choices(b, FALSE) :
       /\ Cardinality(OffMainChain(Call(b, FALSE, c).store)) <= DeepMaxForked
       /\ Installs(b, Call(b, FALSE, c))

DeepNext == deep_push

DeepSpec == Init /\ [][DeepNext]_vars

(* ------------------------------ properties ----------------------------- *)
HeadNumber == block_number(state.main_chain.head)
InfoOf(h) == chain_store.chain_info[h]
\* a is b or an ancestor of b.
IsOnChainOf(a, b) == Len(a) <= Len(b) /\ SubSeq(b, 1, Len(a)) = a
\* The block is above the finality gate of do_push.
AboveGate(b) == block_number(b) > last_macro_block(HeadNumber)
\* P holds of every call of push or trusted_push in the current state: of the
\* block, the trust flag, the choices left open and the outcome.
EveryCall(P(_, _, _, _)) ==
  \A b \in Candidates : \A trust \in BOOLEAN : \A c \in Choices(b, trust) :
     P(b, trust, c, Call(b, trust, c))
SomeCall(P(_, _, _, _)) ==
  \E b \in Candidates : \E trust \in BOOLEAN : \E c \in Choices(b, trust) :
     P(b, trust, c, Call(b, trust, c))

\* C1: between pushes the hash of the accounts trie is the state_root of the
\* head of the main chain, whatever the pushes before returned.
C1_AccountsMatchHead ==
  /\ accounts_hash(accounts) = state_root(state.main_chain.head)
  /\ accounts_hash(accounts) = state_root(chain_store.head)
\* A rebranch has reverted and re-committed blocks and left accounts other
\* than those of genesis.
C1_Witness ==
  /\ result = "Rebranched"
  /\ Len(events[1].reverted_blocks) >= 1
  /\ accounts # GenesisAccounts

\* C2: no push clears the on_main_chain flag of a macro block on the main
\* chain, and the head after the push (of the store and in memory) is the
\* macro block or a descendant of it.
C2_MacroStays ==
  [][\A m \in Stored :
       (is_macro(m) /\ InfoOf(m).on_main_chain) =>
         /\ m \in DOMAIN chain_store'.chain_info =>
              chain_store'.chain_info[m].on_main_chain
         /\ IsOnChainOf(m, chain_store'.head)
         /\ IsOnChainOf(m, state'.head_hash)]_vars
\* A rebranch that reverted and adopted blocks above a macro block of the main
\* chain that is not genesis.
C2_Witness ==
  /\ result = "Rebranched"
  /\ Len(events[1].reverted_blocks) >= 1
  /\ \E m \in Stored :
       /\ is_macro(m) /\ m # Genesis /\ InfoOf(m).on_main_chain
       /\ block_number(m) < block_number(events[1].adopted_blocks[1].block)

\* C3: a push of a block at or below the last macro block of the head returns
\* Ignored, whether or not the block is stored or its parent known, and leaves
\* the store, the accounts, the receipts and the in-memory state as they are,
\* with no event, log or fork proof.
C3_GateCall(b, trust, c, out) ==
  ~AboveGate(b) =>
     out = Outcome("Ignored", chain_store, accounts, state, << >>, << >>, {})
C3_GateIgnores == EveryCall(C3_GateCall)
\* Below the gate there are a stored block and a block on an unknown parent.
C3_Witness ==
  /\ HeadNumber >= BATCH_LENGTH
  /\ \E b \in Candidates : ~AboveGate(b) /\ b \in Stored
  /\ \E b \in Candidates : /\ ~AboveGate(b) /\ b \notin Stored
                           /\ parent_hash(b) \notin Stored


\* The latest push accepted its block and the block is in the store.
Accepted ==
  /\ result \in {"Extended", "Rebranched", "Forked", "Ignored"}
  /\ block \in Stored
\* The results of a push of the block of the latest push, in the state that
\* push left.
RepushResults ==
  UNION {{Call(block, trust, c).result : c \in Choices(block, trust)} :
           trust \in BOOLEAN}

C5_HeadCall(b, trust, c, out) ==
  out.result \in {"Extended", "Ignored", "Known", "Forked"} =>
    LET step == IF out.result = "Extended" THEN 1 ELSE 0 IN
    /\ block_number(out.state.main_chain.head) = HeadNumber + step
    /\ block_number(out.store.head) = block_number(chain_store.head) + step
    /\ out.result # "Extended" =>
         out.state.head_hash = state.head_hash /\ out.store.head = chain_store.head
C5_HeadMonotone == EveryCall(C5_HeadCall)
\* A push has stored a block off the main chain of a head above the first
\* macro block.
C5_Witness ==
  /\ result = "Forked"
  /\ HeadNumber > BATCH_LENGTH
  /\ ~InfoOf(block).on_main_chain

\* The fork walk of rebranch for block b.
ForkWalk(b) == FindAncestor(chain_store, Entry(hash(b), from_block(b)), << >>)
\* The common ancestor the fork walk finds.
CommonAncestor(b) == ForkWalk(b).ancestor.info.head

\* C6 (as stated): after a push that returned Rebranched the block number of
\* the head is greater than that of macro_info, and the block number of the
\* common ancestor (the parent of the first adopted block) is at least that of
\* macro_info.
C6_RebranchAboveMacro ==
  result = "Rebranched" =>
    /\ HeadNumber > block_number(state.macro_info.head)
    /\ block_number(parent_hash(events[1].adopted_blocks[1].block))
         >= block_number(state.macro_info.head)
\* C6 (amended): for a push that returns Rebranched, the block number of the
\* new head is greater than that of macro_info as it was before the push, and
\* the block number of the common ancestor is at least that; macro_info after
\* the push is at most as high as the new head, and as high when the new head
\* is a macro block.
C6_RebranchCall(b, trust, c, out) ==
  out.result = "Rebranched" =>
    /\ block_number(out.state.main_chain.head) > block_number(state.macro_info.head)
    /\ block_number(CommonAncestor(b)) >= block_number(state.macro_info.head)
    /\ block_number(out.state.main_chain.head)
         >= block_number(out.state.macro_info.head)
    /\ is_macro(b) => out.state.macro_info.head = b
C6_RebranchAbovePreviousMacro == EveryCall(C6_RebranchCall)
\* A rebranch has reverted blocks and made a macro block the head.
C6_Witness ==
  /\ result = "Rebranched"
  /\ Len(events[1].reverted_blocks) >= 1
  /\ is_macro(state.main_chain.head)
  /\ state.macro_info.head = state.main_chain.head

\* The push of b gets to rebranch, its fork walk finds a common ancestor, and
\* the common ancestor lies below macro_info, the latest macro block the state
\* holds.
Crosses(b, trust, c) ==
  /\ EarlyStage(chain_store, state, b, trust, c.proposer) = "order"
  /\ c.order = "Superior"
  /\ ForkWalk(b).ok
  /\ block_number(CommonAncestor(b)) < block_number(state.macro_info.head)
\* The stored blocks of the fork chain of b.
ForkBlocks(b) ==
  {f \in Stored : IsOnChainOf(f, b) /\ ~IsOnChainOf(f, CommonAncestor(b))}

\* C7 (as stated): a push whose rebranch would cross the last macro block
\* returns InvalidFork, and the store is as before but for the blocks of the
\* fork chain, which are removed.
C7_CrossCallRemoves(b, trust, c, out) ==
  Crosses(b, trust, c) =>
    /\ out.result = "InvalidFork"
    /\ DOMAIN out.store.chain_info = Stored \ ForkBlocks(b)
    /\ \A h \in DOMAIN out.store.chain_info : out.store.chain_info[h] = InfoOf(h)
    /\ out.store.head = chain_store.head
C7_CrossCall(b, trust, c, out) ==
  Crosses(b, trust, c) =>
    /\ out.result = "InvalidFork"
    /\ out.store = chain_store
    /\ out.accounts = accounts
    /\ out.state = state
    /\ out.events = << >> /\ out.logs = << >>
    /\ ForkBlocks(b) # {} /\ ForkBlocks(b) \subseteq DOMAIN out.store.chain_info
    /\ hash(b) \notin DOMAIN out.store.chain_info
C8_OrphanCall(b, trust, c, out) ==
  (/\ AboveGate(b)
   /\ hash(b) \notin Stored
   /\ (parent_hash(b) \notin Stored \/ ~c.proposer)) =>
     out = Outcome("Orphan", chain_store, accounts, state, << >>, << >>, {})
C8_OrphanChangesNothing == EveryCall(C8_OrphanCall)
\* Above a macro block that is not genesis there is a block to push whose
\* parent is not stored, and one whose parent is stored and whose proposer is
\* not found.
C8_Witness ==
  /\ HeadNumber > BATCH_LENGTH
  /\ SomeCall(LAMBDA b, trust, c, out :
                /\ AboveGate(b) /\ hash(b) \notin Stored
                /\ parent_hash(b) \notin Stored /\ out.result = "Orphan")
  /\ SomeCall(LAMBDA b, trust, c, out :
                /\ AboveGate(b) /\ hash(b) \notin Stored
                /\ parent_hash(b) \in Stored /\ ~c.proposer /\ out.result = "Orphan")

\* C9: when a push of b returns Extended, the parent of b was the head, and
\* after it the head of the store and head_hash are the hash of b, main_chain
\* is the chain-info of b as stored, with on_main_chain set, and the stored
\* parent has the hash of b as its main_chain_successor.
C9_ExtendCall(b, trust, c, out) ==
  out.result = "Extended" =>
    /\ parent_hash(b) = state.head_hash
    /\ parent_hash(b) = chain_store.head
    /\ out.store.head = hash(b)
    /\ out.state.head_hash = hash(b)
    /\ hash(b) \in DOMAIN out.store.chain_info
    /\ out.state.main_chain = out.store.chain_info[hash(b)]
    /\ out.state.main_chain.head = b
    /\ out.store.chain_info[hash(b)].on_main_chain
    /\ parent_hash(b) \in DOMAIN out.store.chain_info
    /\ out.store.chain_info[parent_hash(b)].main_chain_successor = hash(b)
C9_ExtendedHead == EveryCall(C9_ExtendCall)
\* A push has extended a chain of two blocks or more.
C9_Witness ==
  /\ result = "Extended"
  /\ HeadNumber > 2
  /\ InfoOf(parent_hash(block)).main_chain_successor = hash(block)

\* The BlockchainEvent a push of b that returns Extended notifies.
EventOfExtended(b) ==
  [type |-> IF is_election_block(b) THEN "EpochFinalized"
            ELSE IF is_macro(b) THEN "Finalized" ELSE "Extended",
   hash |-> hash(b)]

\* C10: a push that returns Extended notifies one event: EpochFinalized for an
\* election block, Finalized for another macro block, Extended for a micro
\* block, each with the hash of the block; a push that returns Rebranched
\* notifies one Rebranched event; a push that returns anything else notifies no
\* event and no block log.
C10_EventCall(b, trust, c, out) ==
  /\ out.result = "Extended" => out.events = << EventOfExtended(b) >>
  /\ out.result = "Rebranched" =>
       Len(out.events) = 1 /\ out.events[1].type = "Rebranched"
  /\ out.result \notin {"Extended", "Rebranched"} =>
       out.events = << >> /\ out.logs = << >>
C10_EventsByResult == EveryCall(C10_EventCall)
\* A push has extended the chain by an election block.
C10_Witness ==
  /\ result = "Extended"
  /\ is_election_block(block)
  /\ events = << [type |-> "EpochFinalized", hash |-> hash(block)] >>

\* C11: a push of a verified block that the chain ordering classifies as
\* Unknown returns Forked, and as Inferior returns Ignored; either way the
\* chain-info of the block is stored with on_main_chain unset and no
\* successor, and the head of the store, every other chain-info, the
\* receipts, the accounts and the in-memory state are as before.
C11_StoreCall(b, trust, c, out) ==
  (/\ EarlyStage(chain_store, state, b, trust, c.proposer) = "order"
   /\ c.order \in {"Inferior", "Unknown"}) =>
     /\ out.result = (IF c.order = "Unknown" THEN "Forked" ELSE "Ignored")
     /\ DOMAIN out.store.chain_info = Stored \cup {hash(b)}
     /\ out.store.chain_info[hash(b)] =
          [head |-> b, on_main_chain |-> FALSE, main_chain_successor |-> NoHash]
     /\ \A h \in Stored : out.store.chain_info[h] = InfoOf(h)
     /\ out.store.head = chain_store.head
     /\ out.store.receipts = chain_store.receipts
     /\ out.accounts = accounts
     /\ out.state = state
C11_OffMainStored == EveryCall(C11_StoreCall)
\* A push has stored a block of an inferior chain, beside a main chain of two
\* blocks or more that holds receipts.
C11_Witness ==
  /\ result = "Ignored"
  /\ block \in Stored
  /\ InfoOf(block) = from_block(block)
  /\ HeadNumber >= 2
  /\ chain_store.head # block
  /\ DOMAIN chain_store.receipts # {}

\* The blocks of the main chain above the common ancestor of b, lowest first.
OldChain(b) ==
  [i \in 1..(HeadNumber - block_number(CommonAncestor(b))) |->
     SubSeq(state.main_chain.head, 1, block_number(CommonAncestor(b)) + i)]

\* C12 (as stated): the reverted list of the Rebranched event holds the blocks
\* of the old main chain above the common ancestor, the old head first.
C12_HeadFirstCall(b, trust, c, out) ==
  out.result = "Rebranched" =>
    LET rev == out.events[1].reverted_blocks
        n == Len(OldChain(b))
    IN /\ Len(rev) = n
       /\ \A i \in 1..n : rev[i] = [hash |-> hash(OldChain(b)[n + 1 - i]),
                                     block |-> OldChain(b)[n + 1 - i]]
C12_RevertedHeadFirst == EveryCall(C12_HeadFirstCall)
\* C12 (amended): the reverted list of the Rebranched event holds the blocks
\* of the old main chain above the common ancestor in ascending order of block
\* number, the old head last.
C12_LowestFirstCall(b, trust, c, out) ==
  out.result = "Rebranched" =>
    LET rev == out.events[1].reverted_blocks
        n == Len(OldChain(b))
    IN /\ Len(rev) = n
       /\ \A i \in 1..n : rev[i] = [hash |-> hash(OldChain(b)[i]),
                                     block |-> OldChain(b)[i]]
C12_RevertedLowestFirst == EveryCall(C12_LowestFirstCall)
\* A rebranch has reverted two blocks or more, and a longer chain took their
\* place.
C12_Witness ==
  /\ result = "Rebranched"
  /\ Len(events[1].reverted_blocks) >= 2
  /\ Len(events[1].adopted_blocks) > Len(events[1].reverted_blocks)

\* The blocks of the chain of b above the common ancestor of b, lowest first.
AdoptedChain(b) ==
  [i \in 1..(block_number(b) - block_number(CommonAncestor(b))) |->
     SubSeq(b, 1, block_number(CommonAncestor(b)) + i)]

\* C13: when a push of b returns Rebranched, the adopted list of the event is
\* the fork chain from the block on the common ancestor up to b in ascending
\* order of block number, the head of the store and head_hash are the hash of
\* b, and the hash of the accounts is the state_root of b.
C13_RebranchCall(b, trust, c, out) ==
  out.result = "Rebranched" =>
    LET ad == out.events[1].adopted_blocks
        n == Len(AdoptedChain(b))
    IN /\ n >= 1 /\ Len(ad) = n
       /\ \A i \in 1..n : ad[i] = [hash |-> hash(AdoptedChain(b)[i]),
                                    block |-> AdoptedChain(b)[i]]
       /\ parent_hash(ad[1].block) = hash(CommonAncestor(b))
       /\ ad[n].block = b
       /\ out.store.head = hash(b)
       /\ out.state.head_hash = hash(b)
       /\ out.state.main_chain.head = b
       /\ accounts_hash(out.accounts) = state_root(b)
C13_RebranchedHead == EveryCall(C13_RebranchCall)
\* A rebranch has reverted a block and adopted a fork chain of two blocks or
\* more whose tip is the head, with accounts other than those of genesis.
C13_Witness ==
  /\ result = "Rebranched"
  /\ Len(events[1].adopted_blocks) >= 2
  /\ Len(events[1].reverted_blocks) >= 1
  /\ chain_store.head = hash(block)
  /\ accounts # GenesisAccounts

\* The errors of the verifier and of check_and_commit.
ValidationErrors ==
  {"InvalidBlock(Header)", "InvalidBlock(InvalidJustification)",
   "InvalidBlock(Body)", "DuplicateTransaction", "AccountsError",
   "InvalidBlock(AccountsHashMismatch)"}

\* C14: a push of a block on the head that fails the header, justification or
\* body check, or whose commit fails with DuplicateTransaction, AccountsError
\* or a state-root mismatch, returns that error, does not store the block, and
\* leaves the store (chain-infos, head, receipts), the accounts and the
\* in-memory state exactly as they were, with no event and no log.
C14_FailCall(b, trust, c, out) ==
  /\ (parent_hash(b) = state.head_hash /\ out.result \in ValidationErrors) =>
       /\ out.store = chain_store
       /\ hash(b) \notin DOMAIN out.store.chain_info
       /\ out.accounts = accounts
       /\ out.state = state
       /\ out.events = << >> /\ out.logs = << >>
  /\ (parent_hash(b) = state.head_hash /\ hash(b) \notin Stored /\ c.proposer) =>
       /\ content(b).fails = "header" => out.result = "InvalidBlock(Header)"
       /\ (content(b).fails = "justification" /\ ~trust) =>
            out.result = "InvalidBlock(InvalidJustification)"
       /\ content(b).fails = "body" => out.result = "InvalidBlock(Body)"
       /\ (content(b).fails = None /\ ~content(b).root_ok) =>
            out.result \in {"DuplicateTransaction", "AccountsError",
                            "InvalidBlock(AccountsHashMismatch)"}
       /\ out.result \in ValidationErrors \cup {"Extended"}
C14_FailedExtendChangesNothing == EveryCall(C14_FailCall)
\* On a head above the first macro block there is a block to push whose commit
\* wrote receipts before its state root turned out wrong.
C14_Witness ==
  /\ HeadNumber >= BATCH_LENGTH
  /\ SomeCall(LAMBDA b, trust, c, out :
                /\ parent_hash(b) = state.head_hash
                /\ is_micro(b)
                /\ out.result = "InvalidBlock(AccountsHashMismatch)")

\* The push of b gets to rebranch and past its finality guard.
ReachesRevert(b, trust, c) ==
  /\ EarlyStage(chain_store, state, b, trust, c.proposer) = "order"
  /\ c.order = "Superior"
  /\ ForkWalk(b).ok
  /\ block_number(CommonAncestor(b)) >= block_number(state.macro_info.head)
\* The index in the fork chain of b (the tip is 1) of the block whose
\* check_and_commit fails in the rebranch onto b; 0 when none fails or the
\* revert walk panics.
FailedForkBlock(b) ==
  LET walk == ForkWalk(b)
      reverted == RevertChain(write_transaction(chain_store, accounts),
                              Entry(state.head_hash, state.main_chain),
                              walk.ancestor.hash, << >>, << >>)
  IN IF reverted.panic # None THEN 0
     ELSE CommitFork(reverted.txn, walk.fork_chain, Len(walk.fork_chain),
                     reverted.logs).failed

\* C15: when check_and_commit fails for a block f of the fork chain during a
\* rebranch, the push returns InvalidFork; the head, the receipts, the
\* accounts and the in-memory state are as before the call; the chain-infos
\* of f and of the blocks of the fork chain above f are not in the store, and
\* every other chain-info is as before, so the blocks of the fork chain below
\* f are still stored, off the main chain.
C15_FailCall(b, trust, c, out) ==
  (ReachesRevert(b, trust, c) /\ FailedForkBlock(b) # 0) =>
    LET k == FailedForkBlock(b)
        fork_chain == ForkWalk(b).fork_chain
        removed == {fork_chain[j].hash : j \in 1..k}
    IN /\ out.result = "InvalidFork"
       /\ out.accounts = accounts
       /\ out.state = state
       /\ out.store.head = chain_store.head
       /\ out.store.receipts = chain_store.receipts
       /\ out.events = << >> /\ out.logs = << >>
       /\ DOMAIN out.store.chain_info = Stored \ removed
       /\ \A h \in Stored \ removed : out.store.chain_info[h] = InfoOf(h)
       /\ \A j \in (k + 1)..Len(fork_chain) :
            /\ fork_chain[j].hash \in DOMAIN out.store.chain_info
            /\ ~out.store.chain_info[fork_chain[j].hash].on_main_chain
C15_FailedForkRemoved == EveryCall(C15_FailCall)
\* There is a block to push whose rebranch fails on a stored block of the fork
\* chain that has a stored fork block below it.
C15_Witness ==
  SomeCall(LAMBDA b, trust, c, out :
             /\ ReachesRevert(b, trust, c)
             /\ FailedForkBlock(b) >= 2
             /\ FailedForkBlock(b) < Len(ForkWalk(b).fork_chain)
             /\ out.result = "InvalidFork")

\* C16: a block that is submitted again, through push or trusted_push and
\* after whatever pushes, is not committed again: the push of a stored block
\* returns Known or Ignored and leaves the accounts as they are, and the
\* accounts are at all times the ones obtained by committing each block of the
\* chain of the head once; no block of the main chain holds a transaction
\* that a block of the validity window before it holds.
C16_ReplayCall(b, trust, c, out) ==
  hash(b) \in Stored =>
    /\ out.result \in {"Known", "Ignored"}
    /\ out.accounts = accounts
    /\ accounts_hash(out.accounts) = accounts_hash(StateAfter(out.state.main_chain.head))
C16_NoDoubleCommit ==
  /\ accounts_hash(accounts) = accounts_hash(StateAfter(state.main_chain.head))
  /\ \A n \in 1..HeadNumber :
       ~FirstDuplicate(transactions(SubSeq(state.main_chain.head, 1, n)),
                       SubSeq(state.main_chain.head, 1, n - 1))
  /\ EveryCall(C16_ReplayCall)
\* A block with a transaction on the main chain and one off the main chain
\* are submitted again, trusted and untrusted.
C16_Witness ==
  /\ accounts.balance > 0
  /\ SomeCall(LAMBDA b, trust, c, out :
                /\ hash(b) \in Stored /\ transactions(b) # << >>
                /\ InfoOf(hash(b)).on_main_chain /\ trust
                /\ out.result = "Known")
  /\ SomeCall(LAMBDA b, trust, c, out :
                /\ hash(b) \in Stored /\ transactions(b) # << >>
                /\ ~InfoOf(hash(b)).on_main_chain /\ ~trust
                /\ out.result = "Known")

\* The latest push rebranched onto a sibling chain as long as the part of the
\* main chain it took the place of.
SiblingRebranch ==
  /\ result = "Rebranched"
  /\ Len(events[1].reverted_blocks) = Len(events[1].adopted_blocks)
\* The head the latest rebranch reverted.
OldHead == events[1].reverted_blocks[Len(events[1].reverted_blocks)].block

\* C17: after a rebranch from head h onto a sibling chain of equal length, a
\* rebranch back onto the chain of h (the push of a block b on h) reverts the
\* whole sibling chain and leaves the accounts that committing b alone on the
\* accounts found at h gives: the accounts hash at h is restored exactly, and
\* is the accounts hash after the push when b changes no account.  The push
\* of a valid macro block on h that is ordered Superior does rebranch back.
C17_BackCall(b, trust, c, out) ==
  /\ (parent_hash(b) = hash(OldHead) /\ out.result = "Rebranched") =>
       /\ out.events[1].reverted_blocks = events[1].adopted_blocks
       /\ out.accounts =
            AccountsCommit(accounts_before, transactions(b), Inherents(b),
                           block_number(b)).accounts
       /\ (transactions(b) = << >> /\ Inherents(b) = [slash |-> 0, finalize |-> 0]) =>
            accounts_hash(out.accounts) = accounts_hash(accounts_before)
  /\ (/\ parent_hash(b) = hash(OldHead) /\ hash(b) \notin Stored
      /\ is_macro(b) /\ content(b).fails = None /\ content(b).root_ok
      /\ c.proposer /\ c.order = "Superior") =>
       out.result = "Rebranched"
C17_RevertRoundTrip ==
  SiblingRebranch =>
    /\ accounts_hash(accounts_before) = state_root(OldHead)
    /\ EveryCall(C17_BackCall)
\* After a rebranch onto a sibling chain of two blocks that changed the
\* accounts, the push of a macro block on the old head rebranches back and
\* leaves the accounts found at the old head.
C17_Witness ==
  /\ SiblingRebranch
  /\ Len(events[1].reverted_blocks) >= 2
  /\ accounts # accounts_before
  /\ SomeCall(LAMBDA b, trust, c, out :
                /\ parent_hash(b) = hash(OldHead)
                /\ is_macro(b)
                /\ out.result = "Rebranched"
                /\ out.accounts = accounts_before)

(* ------------------------------ C18 ------------------------------------ *)
\* C18: pushes are serialized.  A push holds the one upgradable read guard
\* from its first store read to its return, so at most one push is under way
\* at any time; while it validates and does its storage I/O the lock is not
\* in writer mode, so plain readers are admitted and may hold it.
C18_PushesSerialized ==
  /\ Cardinality({p \in Pushers : InPush(p)}) <= 1
  /\ \A p \in Pushers :
       /\ InPush(p) => lock.upgradable = p
       /\ pc[p] \in {"do_push", "upgrade"} => CanRead(lock)

\* A reader holds the lock while a push has committed a rebranch to the store
\* and has not yet swapped the in-memory state; the other pusher waits.
C18_Witness ==
  \E p \in Pushers, r \in Readers :
    /\ pc[p] = "upgrade"
    /\ pending[p].out.result = "Rebranched"
    /\ chain_store = pending[p].out.store
    /\ state = pending[p].pre
    /\ r \in lock.readers
    /\ \A q \in Pushers \ {p} : ~InPush(q) /\ ~CanUpgradableRead(lock)

(* ------------------------------ C19 ------------------------------------ *)
\* The fields of an in-memory state that belong to one head.
OneHead(s) ==
  /\ s.head_hash = hash(s.main_chain.head)
  /\ s.macro_head_hash = hash(s.macro_info.head)
  /\ s.election_head_hash = hash(s.election_head)
  /\ is_macro(s.main_chain.head) => s.macro_info = s.main_chain
  /\ is_election_block(s.main_chain.head) =>
       /\ s.election_head = s.main_chain.head
       /\ s.current_slots = get_validators(s.main_chain.head)

\* The pushers that are past the commit of their write transaction.
Swapping == {p \in Pushers : pc[p] \notin {"idle", "do_push"}}

\* C19: readers never see a half-applied state transition.  A push assigns
\* the fields of the in-memory state only while it holds the lock in writer
\* mode, and whenever a thread holds the lock in read mode the state is in
\* whole the one the push under way found or in whole the one it leaves, with
\* head_hash, macro_head_hash, election_head_hash and the slots those of
\* main_chain, macro_info and election_head.
C19_NoHalfAppliedState ==
  /\ \A p \in Pushers :
       pc[p] \in {"macro_info", "main_chain", "head_hash", "downgrade"}
         => Mode(p) = "writer" /\ lock.readers = {}
  /\ lock.readers # {} =>
       /\ OneHead(state)
       /\ \A p \in Swapping : state \in {pending[p].pre, pending[p].out.state}

\* The push of a macro block was between its assignments, macro_info already
\* that of the new block and main_chain still the old head; now a reader
\* holds the lock and sees the state the push leaves.
C19_Witness ==
  \E p \in Pushers, r \in Readers :
    /\ pc[p] = "notify"
    /\ is_macro(pending[p].block)
    /\ pending[p].out.result = "Extended"
    /\ r \in lock.readers
    /\ state = pending[p].out.state
    /\ state.macro_info # pending[p].pre.macro_info
    /\ state.main_chain # pending[p].pre.main_chain
    /\ OneHead(state)

(* ------------------------------ C20 ------------------------------------ *)
\* C20: every notifier call of push, for a fork event, a blockchain event or
\* a block log, is made while push holds the lock in upgradable-read mode and
\* never in writer mode; a push that is about to notify holds it so, and the
\* lock then admits a listener that takes it in read mode.
C20_NotifyUnderUpgradableRead ==
  /\ \A n \in notified : n.mode = "upgradable"
  /\ \A p \in Pushers :
       pc[p] \in {"notify", "notify_logs"} =>
         Mode(p) = "upgradable" /\ CanRead(lock)

\* Fork events, blockchain events and block logs have all been notified, and
\* the push under way has just notified the events of a rebranch, its
\* listeners having taken the lock in read mode, and still holds its guard.
C20_Witness ==
  /\ {n.kind : n \in notified} = {"fork", "event", "log"}
  /\ \E p \in Pushers :
       /\ pc[p] = "return"
       /\ pending[p].out.result = "Rebranched"
       /\ events = pending[p].out.events
       /\ events # << >>
       /\ Mode(p) = "upgradable"

(* ------------------------------ C21 ------------------------------------ *)
\* The block a BlockchainEvent announces as the new head.
Announced(ev) ==
  IF ev.type = "Rebranched"
  THEN ev.adopted_blocks[Len(ev.adopted_blocks)].hash
  ELSE ev.hash

\* h is the head of the store, committed, and the head in memory.
HeadIs(h) ==
  /\ chain_store.head = h
  /\ has_chain_info(chain_store, h)
  /\ get_chain_info(chain_store, h).on_main_chain
  /\ state.head_hash = h
  /\ hash(state.main_chain.head) = h

\* The pushers whose committed head transition awaits its event.
Unannounced ==
  {p \in Pushers : pc[p] \in {"upgrade", "macro_info", "main_chain",
                              "head_hash", "downgrade", "notify"}}

\* C21: an Extended, Finalized, EpochFinalized or Rebranched event is notified
\* only after the write transaction that makes the announced block the head
\* of the store has committed and the head in memory is that block; and the
\* events follow the order of the commits: but for the time between a commit
\* and its own event, the latest event notified announces the head the latest
\* commit left.
C21_EventsAfterCommit ==
  /\ \A p \in Pushers :
       pc[p] = "notify" =>
         /\ pending[p].out.events # << >>
         /\ \A i \in 1..Len(pending[p].out.events) :
              /\ pending[p].out.events[i].type \in
                   {"Extended", "Finalized", "EpochFinalized", "Rebranched"}
              /\ HeadIs(Announced(pending[p].out.events[i]))
  /\ Unannounced = {} =>
       IF events = << >> THEN HeadIs(Genesis)
       ELSE Len(events) = 1 /\ HeadIs(Announced(events[1]))

\* A push has just notified the Rebranched event of its rebranch, after an
\* earlier push that extended the chain had notified its own and returned.
C21_Witness ==
  \E p \in Pushers :
    /\ pc[p] = "return"
    /\ pending[p].out.result = "Rebranched"
    /\ events = pending[p].out.events
    /\ HeadIs(Announced(events[1]))
    /\ result = "Extended"
    /\ block # pending[p].block

(* ------------------------------ C22 ------------------------------------ *)
\* The blocks the store holds at the height of b that are micro blocks, no
\* skip blocks, and of the entropy of b.
Equivocations(b) ==
  {o \in get_blocks_at(chain_store, block_number(b)) :
     /\ o # Genesis /\ ~is_macro_block_at(block_number(o)) /\ ~content(o).skip
     /\ content(o).entropy = content(b).entropy}

\* What extend, rebranch or the off-main store of a verified block b gives
\* when no fork event was notified.
WithoutForks(b, c) ==
  LET prev_info == get_chain_info(chain_store, parent_hash(b))
      chain_info == from_block(b)
  IN CASE c.order = "Extend" ->
            extend(chain_store, accounts, state, hash(b), chain_info, prev_info, {})
       [] c.order = "Superior" ->
            rebranch(chain_store, accounts, state, hash(b), chain_info, {})
       [] OTHER ->
            Outcome(IF c.order = "Inferior" THEN "Ignored" ELSE "Forked",
                    put_chain_info(chain_store, hash(b), chain_info),
                    accounts, state, << >>, << >>, {})

\* C22: a push notifies fork events only for a block that passed the header,
\* justification and body checks and is a micro block and no skip block; it
\* then notifies one fork proof, of the pushed block against the other, for
\* each micro block that is no skip block, is held by the store at the same
\* height and has the same entropy, and none else; and the result, the store,
\* the accounts, the in-memory state, the events and the logs of the push are
\* what they are without the fork events.
C22_ForkCall(b, trust, c, out) ==
  LET verified == EarlyStage(chain_store, state, b, trust, c.proposer) = "order"
      micro == ~is_macro_block_at(block_number(b)) /\ ~content(b).skip
  IN /\ ~(verified /\ micro) => out.forks = {}
     /\ verified /\ micro =>
          /\ {f.header2 : f \in out.forks} = Equivocations(b)
          /\ Cardinality(out.forks) = Cardinality(Equivocations(b))
          /\ \A f \in out.forks :
               f.header1 = b /\ f.prev_vrf_seed = entropy(parent_hash(b))
     /\ verified => [out EXCEPT !.forks = {}] = WithoutForks(b, c)
C22_OtherEntropyCall(b, trust, c, out) ==
  /\ EarlyStage(chain_store, state, b, trust, c.proposer) = "order"
  /\ ~is_macro_block_at(block_number(b)) /\ ~content(b).skip
  /\ out.forks = {}
  /\ \E o \in get_blocks_at(chain_store, block_number(b)) : ~content(o).skip

PutsOf(k) ==
  {requests[i].item : i \in {j \in DOMAIN requests :
      requests[j].op = "dht_put" /\ requests[j].name = k}}

\* The ids of the queries that are under way or whose result waits for the
\* swarm task of node n.
Unresolved(n) ==
  {q.id : q \in {x \in swarm.queries : x.node = n}}
    \cup {swarm.events[n][i].id :
            i \in {j \in DOMAIN swarm.events[n] :
                     swarm.events[n][j].type = "QueryResult"}}

Dht == {r \in DOMAIN requests : requests[r].op \in {"dht_put", "dht_get"}}

\* C23: a dht_get of a key, called after a dht_put of value v under the key
\* has returned Ok on some node, returns Some(v) on whichever node it is
\* called (v being the one value put under the key); a put or get is answered
\* at most once; it is pending in the TaskState of its node exactly from the
\* start of its query until the result with the id of the query is handled,
\* and is answered only then; and a result with an unknown id answers nobody.
C23_DhtPutGet ==
  /\ \A r \in Dht :
       LET req == requests[r]
           tasks == task_state[req.node]
           waiting == IF req.op = "dht_get" THEN tasks.dht_gets ELSE tasks.dht_puts
       IN /\ Len(req.answers) <= 1
          /\ (req.op = "dht_get" /\ req.seen # {} /\ req.answers # << >>
                /\ Cardinality(PutsOf(req.name)) = 1)
               => \A v \in req.seen : req.answers = << [ok |-> TRUE, value |-> v] >>
          /\ req.query # 0 =>
               /\ (req.query \in DOMAIN waiting) = (req.query \in Unresolved(req.node))
               /\ (req.query \in DOMAIN waiting) = (req.answers = << >>)
               /\ req.query \in DOMAIN waiting => waiting[req.query] = r
          /\ req.query = 0 /\ req.answers # << >> =>
               req.op = "dht_put" /\ ~req.answers[1].ok
  /\ \A n \in Nodes :
       /\ \A id \in DOMAIN task_state[n].dht_gets :
            requests[task_state[n].dht_gets[id]].query = id
       /\ \A id \in DOMAIN task_state[n].dht_puts :
            requests[task_state[n].dht_puts[id]].query = id

\* dht_put of 420 under foo has returned Ok on n1, a dht_get of foo called
\* after that on n2 has returned Some(420), and the result of a query that
\* no call started has come and gone.
C23_Witness ==
  /\ Len(requests) >= 2
  /\ requests[1] = [Request("dht_put", "n1", "foo", 420) EXCEPT
                      !.answers = << [ok |-> TRUE, value |-> None] >>,
                      !.query = 1]
  /\ requests[2].op = "dht_get" /\ requests[2].node = "n2"
  /\ requests[2].seen = {420}
  /\ requests[2].answers = << [ok |-> TRUE, value |-> 420] >>
  /\ swarm.foreign = 1
  /\ \A n \in Nodes : swarm.events[n] = << >>
  /\ \A r \in DOMAIN requests : requests[r].op \in {"dht_put", "dht_get"}

(* ------------------------------ C24 ------------------------------------ *)
\* The number of entries of the sequence s that are in the set S.
CountIn(s, S) == Cardinality({i \in DOMAIN s : s[i] \in S})

\* The calls of publish of item v on topic t by node m that the swarm
\* published while node n was subscribed to t.
PublishedTo(n, t, m, v) ==
  {p \in DOMAIN requests :
     /\ requests[p].op = "publish" /\ requests[p].node = m
     /\ requests[p].name = t /\ requests[p].item = v
     /\ n \in requests[p].seen}

\* The messages of peer m with item v that wait for the swarm task on topic t.
MessagesOf(t, m, v) ==
  {e \in [type : {"Message"}, peer : {m}, topics : SUBSET Topics,
          data : {Serialize(v)}] : t \in e.topics}

\* The stream of the call of subscribe that is registered for topic t at
\* node n holds, together with the messages that wait for the swarm task of
\* n, each item once for each publication of it to n by each other node,
\* and nothing else from a node.
StreamComplete(n, t, r) ==
  /\ requests[r].op = "subscribe" /\ requests[r].node = n
  /\ requests[r].name = t /\ ~requests[r].closed
  /\ \A m \in Nodes \ {n} : \A v \in Values :
       CountIn(requests[r].stream, {[item |-> v, peer |-> m]})
         + CountIn(swarm.events[n], MessagesOf(t, m, v))
       = Cardinality(PublishedTo(n, t, m, v))
  /\ \A i \in DOMAIN requests[r].stream :
       requests[r].stream[i].peer # n

\* The call r is the one whose stream is registered at its node.
Registered(r) ==
  /\ requests[r].name \in DOMAIN task_state[requests[r].node].gossip_topics
  /\ task_state[requests[r].node].gossip_topics[requests[r].name] = r

\* handle_event of a message at node n: the stream registered for a topic of
\* the message gets the item and the peer, and no other stream and no part of
\* the TaskState changes.
MessageHandled(n) ==
  LET event == Head(swarm.events[n])
      item == [item |-> Deserialize(event.data), peer |-> event.peer] IN
  (/\ swarm.events[n] # << >>
   /\ event.type = "Message"
   /\ swarm'.events[n] = Tail(swarm.events[n])) =>
     /\ task_state' = task_state
     /\ DOMAIN requests' = DOMAIN requests
     /\ \A r \in DOMAIN requests :
          requests'[r] =
            IF /\ requests[r].op = "subscribe" /\ requests[r].node = n
               /\ Registered(r) /\ requests[r].name \in event.topics
            THEN [requests[r] EXCEPT !.stream = Append(@, item)]
            ELSE requests[r]

\* The swarm has published the item of call p while node n was subscribed to
\* its topic.
InStream(n, p) ==
  /\ p \in DOMAIN requests
  /\ requests[p].op = "publish" /\ n \in requests[p].seen

\* The stream registered for the topic of call p at node n holds its item,
\* and no message with it waits for the swarm task of n.
Received(n, p) ==
  /\ InStream(n, p)
  /\ CountIn(swarm.events[n],
             MessagesOf(requests[p].name, requests[p].node, requests[p].item)) = 0
  /\ \E r \in DOMAIN requests :
       /\ requests[r].node = n /\ requests[r].name = requests[p].name
       /\ Registered(r)
       /\ CountIn(requests[r].stream,
                  {[item |-> requests[p].item, peer |-> requests[p].node]})
            = Cardinality(PublishedTo(n, requests[p].name, requests[p].node,
                                      requests[p].item))

OnMainChain == {h \in Stored : InfoOf(h).on_main_chain}
\* The blocks on the parent_hash path from block b back to genesis.
PathOf(b) == {SubSeq(b, 1, k) : k \in 0..Len(b)}
\* The first epoch prune_epoch has left in the store.
FirstEpochStored ==
  saturating_sub(epoch_at((HeadNumber \div EPOCH_LENGTH) * EPOCH_LENGTH),
                 MAX_EPOCHS_STORED)

\* C25: after every push, whatever it returned, the stored blocks with
\* on_main_chain = true are the blocks on the parent_hash path from the head
\* back to genesis (all of them stored, but for the epochs pruned); the
\* predecessor of each has it as main_chain_successor; the head has none; a
\* stored block off the main chain has none; and every block that the latest
\* rebranch reverted is stored off the main chain without successor.
C25_MainChainWellFormed ==
  /\ OnMainChain = PathOf(chain_store.head) \cap Stored
  /\ \A b \in PathOf(chain_store.head) :
       epoch_at(block_number(b)) >= FirstEpochStored => b \in Stored
  /\ \A b \in OnMainChain :
       (b # Genesis /\ parent_hash(b) \in Stored) =>
         InfoOf(parent_hash(b)).main_chain_successor = hash(b)
  /\ InfoOf(chain_store.head).main_chain_successor = NoHash
  /\ \A b \in Stored \ OnMainChain : InfoOf(b).main_chain_successor = NoHash
  /\ \A h \in Stored : InfoOf(h).head = h
  /\ result = "Rebranched" =>
       \A i \in DOMAIN events[1].reverted_blocks :
         LET b == events[1].reverted_blocks[i].hash IN
         /\ b \in Stored
         /\ ~InfoOf(b).on_main_chain
         /\ InfoOf(b).main_chain_successor = NoHash

\* The latest push rebranched and reverted two blocks, the lower of which
\* had the upper as successor; they are the blocks off the main chain.
C25_Witness ==
  /\ result = "Rebranched"
  /\ Len(events[1].reverted_blocks) = 2
  /\ Len(events[1].adopted_blocks) >= 2
  /\ Cardinality(OnMainChain) = HeadNumber + 1
  /\ Cardinality(Stored \ OnMainChain) = 2

(* ------------------------------ C26 ------------------------------------ *)
\* C26: after every push the block of the in-memory macro_info is stored
\* with on_main_chain = true, under macro_head_hash, and lies on the chain of
\* the head, whose block number is not less than its own.
C26_MacroInfoOnMainChain ==
  /\ state.macro_head_hash = hash(state.macro_info.head)
  /\ state.macro_head_hash \in Stored
  /\ InfoOf(state.macro_head_hash).on_main_chain
  /\ state.macro_info.on_main_chain
  /\ IsOnChainOf(state.macro_info.head, state.head_hash)
  /\ IsOnChainOf(state.macro_info.head, chain_store.head)
  /\ HeadNumber >= block_number(state.macro_info.head)

\* The latest push rebranched onto a fork that holds a macro block below its
\* tip, with macro_info a macro block below that one.
C26_Witness ==
  /\ result = "Rebranched"
  /\ \E i \in DOMAIN events[1].adopted_blocks :
       LET b == events[1].adopted_blocks[i].block IN
       /\ is_macro(b)
       /\ hash(b) # state.head_hash
       /\ block_number(state.macro_info.head) < block_number(b)

(* ------------------------------ C27 ------------------------------------ *)
\* The receipts the commit of block b produces.
ReceiptsOf(b) ==
  AccountsCommit(StateAfter(parent_hash(b)), transactions(b), Inherents(b),
                 block_number(b)).receipts

\* The micro blocks of the main chain at height n.
MainChainMicrosAt(n) ==
  {b \in OnMainChain : block_number(b) = n /\ b # Genesis /\ is_micro(b)}

\* C27: after every push, every height at which receipts are stored has
\* exactly one micro block of the main chain, and the receipts are those its
\* commit produced; no receipts are stored above the head.
C27_ReceiptsAtMainChainMicros ==
  \A n \in DOMAIN chain_store.receipts :
    /\ Cardinality(MainChainMicrosAt(n)) = 1
    /\ \A b \in MainChainMicrosAt(n) : get_receipts(chain_store, n) = ReceiptsOf(b)
    /\ n <= block_number(chain_store.head)

(* ------------------------------ C28 ------------------------------------ *)
\* commit_accounts of block b on the store and accounts as they are.
CommitOnHead(b) == commit_accounts(b, write_transaction(chain_store, accounts))

\* C28: the commit of a micro block on the head stores the receipts of the
\* commit under its block number and leaves the others; the commit of a macro
\* block leaves no receipts; so after every push the receipts of every micro
\* block of the main chain above the last macro block of the main chain are
\* stored, and none are stored at or below that macro block.
C28_ReceiptsLifetime ==
  /\ \A b \in Candidates :
       (parent_hash(b) = chain_store.head /\ CommitOnHead(b).ok) =>
         CommitOnHead(b).txn.store.receipts =
           IF is_macro(b) THEN << >>
           ELSE (block_number(b) :> ReceiptsOf(b)) @@ chain_store.receipts
  /\ \A b \in OnMainChain :
       (is_micro(b) /\ block_number(b) > last_macro_block(HeadNumber)) =>
         /\ has_receipts(chain_store, block_number(b))
         /\ get_receipts(chain_store, block_number(b)) = ReceiptsOf(b)
  /\ \A n \in DOMAIN chain_store.receipts : n > last_macro_block(HeadNumber)
  /\ is_macro(chain_store.head) => chain_store.receipts = << >>

\* The head is the second micro block above a macro block that is not
\* genesis, the receipts of the two micro blocks are all there is, and a
\* macro block can be committed on the head.
C28_Witness ==
  /\ result = "Extended"
  /\ HeadNumber = BATCH_LENGTH + 2
  /\ DOMAIN chain_store.receipts = {BATCH_LENGTH + 1, BATCH_LENGTH + 2}
  /\ \E b \in Candidates :
       parent_hash(b) = chain_store.head /\ is_macro(b) /\ CommitOnHead(b).ok

(* ------------------------------ C29 ------------------------------------ *)
\* The push of p stands between the commit of its write transaction and the
\* last of its assignments to the in-memory state.
Writing(p) == pc[p] \in {"upgrade", "macro_info", "main_chain", "head_hash"}

\* The PushErrors and the panics.
IsError(r) == r \notin {"Extended", "Rebranched", "Forked", "Ignored", "Known"}

\* A call that ends in an error leaves the in-memory state and the accounts
\* as they are, and of the store at most removes chain-infos.
C29_ErrorCall(b, trust, c, out) ==
  IsError(out.result) =>
    /\ out.state = state
    /\ out.accounts = accounts
    /\ out.store.head = chain_store.head
    /\ out.store.receipts = chain_store.receipts
    /\ \A h \in DOMAIN out.store.chain_info :
         h \in Stored /\ out.store.chain_info[h] = InfoOf(h)

\* C29: unless a push stands between the commit of its write transaction and
\* its assignments to the in-memory state (so whenever no push is in
\* progress), the head of the store is the in-memory head_hash and the
\* in-memory main_chain is the stored chain-info of the head; a push that
\* ends in an error has left the in-memory state and the accounts as it found
\* them, its write transaction dropped.
C29_StoreMatchesMemory ==
  /\ (\A p \in Pushers : ~Writing(p)) =>
       /\ chain_store.head = state.head_hash
       /\ state.head_hash \in Stored
       /\ state.main_chain = InfoOf(state.head_hash)
  /\ \A p \in Pushers :
       (pc[p] = "return" /\ IsError(pending[p].out.result)) =>
         /\ state = pending[p].pre
         /\ accounts = pending[p].accounts
         /\ pending[p].out.state = pending[p].pre
         /\ pending[p].out.accounts = pending[p].accounts
  /\ (\A p \in Pushers : pc[p] = "idle") => EveryCall(C29_ErrorCall)

\* A push on a head that is not genesis has ended in AccountsError and is
\* about to return; the other pusher is idle.
C29_Witness ==
  \E p \in Pushers :
    /\ pc[p] = "return"
    /\ pending[p].out.result = "AccountsError"
    /\ state.head_hash # Genesis
    /\ \A q \in Pushers \ {p} : pc[q] = "idle"

(* ------------------------------ C30 ------------------------------------ *)
\* The block logs of a rebranch with event ev: the logs of the reverted
\* blocks, the old head first, then the logs of the adopted blocks, the
\* lowest first.
RebranchLogs(ev) ==
  LET nr == Len(ev.reverted_blocks)
      na == Len(ev.adopted_blocks)
  IN [i \in 1..(nr + na) |->
        IF i <= nr
        THEN [op |-> "revert", block |-> ev.reverted_blocks[nr + 1 - i].block]
        ELSE [op |-> "commit", block |-> ev.adopted_blocks[i - nr].block]]

\* The block numbers of the logs fall by one from the old head down to the
\* block above the common ancestor and then rise by one up to the new head.
DownThenUp(logs, old_head, nr) ==
  /\ nr > 0 => logs[1].block = old_head
  /\ \A i \in 1..(Len(logs) - 1) :
       block_number(logs[i + 1].block) =
         IF i < nr THEN block_number(logs[i].block) - 1
         ELSE IF i = nr THEN block_number(logs[i].block)
         ELSE block_number(logs[i].block) + 1

\* The notifier calls of a push that has committed a rebranch: the event
\* first, the block logs unchanged by that call, then the block logs.
EventThenLogs(p) ==
  /\ (pc[p] = "notify" /\ pc'[p] # "notify") =>
       /\ pc'[p] = "notify_logs"
       /\ events' = pending[p].out.events
       /\ block_logs' = block_logs
  /\ (pc[p] = "notify_logs" /\ pc'[p] # "notify_logs") =>
       /\ events' = events /\ events = pending[p].out.events
       /\ block_logs' = pending[p].out.logs
  /\ block_logs' # block_logs => pc[p] = "notify_logs" \/ pc[p] = pc'[p]

\* C30: the block logs a successful rebranch hands to the log notifier are
\* the logs of the reverted blocks in the order they were reverted, the old
\* head first, followed by the logs of the adopted blocks in ascending
\* order; and it hands them over after it has notified the Rebranched event.
C30_RebranchLogOrder ==
  /\ [](\A p \in Pushers :
          (pc[p] \in {"notify", "notify_logs", "return"}
             /\ pending[p].out.result = "Rebranched") =>
            LET out == pending[p].out IN
            /\ Len(out.events) = 1
            /\ out.events[1].type = "Rebranched"
            /\ out.logs = RebranchLogs(out.events[1])
            /\ DownThenUp(out.logs, pending[p].pre.main_chain.head,
                          Len(out.events[1].reverted_blocks))
            /\ pc[p] = "return" => block_logs = out.logs /\ events = out.events)
  /\ [][\A p \in Pushers : EventThenLogs(p)]_vars

\* A rebranch that reverted two blocks and adopted two has notified its event
\* and then its four block logs.
C30_Witness ==
  \E p \in Pushers :
    /\ pc[p] = "return"
    /\ pending[p].out.result = "Rebranched"
    /\ Len(events[1].reverted_blocks) = 2
    /\ Len(events[1].adopted_blocks) = 2
    /\ Len(block_logs) = 4
    /\ block_logs = pending[p].out.logs

(* ------------------------------ C31 ------------------------------------ *)
\* The accounts check_and_commit is tried on: those of the head, and those of
\* every balance a commit may find.
TrialAccounts ==
  {accounts} \cup {[balance |-> x, slashes |-> accounts.slashes] : x \in 0..2}

\* A transaction of block b is in the validity window of its parent.
Replays(b) ==
  \E i \in 1..Len(transactions(b)) :
     contains_tx_in_validity_window(transactions(b)[i], parent_hash(b))

\* What the accounts engine answers to the commit of b on acc.
EngineCommit(b, acc) ==
  AccountsCommit(acc, transactions(b), Inherents(b), block_number(b))

\* The error check_and_commit of b on acc is to return, None when it is to
\* succeed.
ExpectedError(b, acc) ==
  IF is_micro(b) /\ Replays(b) THEN "DuplicateTransaction"
  ELSE IF ~EngineCommit(b, acc).ok THEN "AccountsError"
  ELSE IF accounts_hash(EngineCommit(b, acc).accounts) # state_root(b)
  THEN "InvalidBlock(AccountsHashMismatch)"
  ELSE None

\* check_and_commit of b on the store as it is and the accounts acc.
Checked(b, acc) == check_and_commit(b, write_transaction(chain_store, acc))

\* C31: check_and_commit of a block on the head returns DuplicateTransaction
\* for a micro block with a transaction of the validity window, with the
\* write transaction as it found it; else AccountsError when the commit of
\* the accounts fails; else InvalidBlock(AccountsHashMismatch) when the hash
\* of the accounts is not the state_root of the block; else it succeeds with
\* the accounts of the commit; a macro block never gets DuplicateTransaction.
C31_ErrorPrecedence ==
  \A b \in Candidates : \A acc \in TrialAccounts :
    parent_hash(b) = chain_store.head =>
      /\ Checked(b, acc).err = ExpectedError(b, acc)
      /\ Checked(b, acc).ok = (ExpectedError(b, acc) = None)
      /\ ExpectedError(b, acc) = "DuplicateTransaction" =>
           Checked(b, acc).txn = write_transaction(chain_store, acc)
      /\ Checked(b, acc).ok =>
           Checked(b, acc).txn.accounts = EngineCommit(b, acc).accounts
      /\ is_macro(b) => Checked(b, acc).err # "DuplicateTransaction"

\* On the head there are a micro block that replays a transaction and whose
\* commit would leave accounts of another hash than its state_root, a micro
\* block whose commit fails, a block whose commit leaves another hash, and a
\* block that passes.
C31_Witness ==
  /\ \E b \in Candidates : \E acc \in TrialAccounts :
       /\ parent_hash(b) = chain_store.head /\ is_micro(b) /\ Replays(b)
       /\ accounts_hash(EngineCommit(b, acc).accounts) # state_root(b)
  /\ \E b \in Candidates : \E acc \in TrialAccounts :
       /\ parent_hash(b) = chain_store.head
       /\ ExpectedError(b, acc) = "AccountsError"
  /\ \E b \in Candidates : \E acc \in TrialAccounts :
       /\ parent_hash(b) = chain_store.head
       /\ ExpectedError(b, acc) = "InvalidBlock(AccountsHashMismatch)"
  /\ \E b \in Candidates :
       /\ parent_hash(b) = chain_store.head
       /\ ExpectedError(b, accounts) = None

(* ------------------------------ C32 ------------------------------------ *)
\* The corruption assertions of the revert phase: those of revert_accounts and
\* the one rebranch makes after each revert.
RevertPanics ==
  {"panic: Failed to revert - inconsistent state",
   "panic: Failed to revert - missing receipts",
   "panic: Failed to revert",
   "panic: Failed to revert main chain while rebranching - inconsistent state"}

C32_NoRevertPanic(b, trust, c, out) == out.result \notin RevertPanics

\* The call reverts blocks of the main chain.
C32_Reverts(b, trust, c, out) ==
  /\ out.result \in {"Rebranched", "InvalidFork"}
  /\ EarlyStage(chain_store, state, b, trust, c.proposer) = "order"
  /\ c.order = "Superior"
  /\ ForkWalk(b).ok
  /\ ForkWalk(b).ancestor.hash # state.head_hash

\* C32: no call of push in any reachable state fires a corruption assertion
\* of the revert phase: before each block of the revert chain is reverted the
\* accounts hash is the state_root of that block, its receipts are stored and
\* the accounts engine reverts it, and after it the accounts root is the
\* state_root of its parent.
C32_RevertAssertionsHold ==
  /\ result \notin RevertPanics
  /\ EveryCall(C32_NoRevertPanic)

\* A rebranch has reverted two blocks, one of them with a transaction, and
\* another call that reverts blocks of the main chain is possible.
C32_Witness ==
  /\ result = "Rebranched"
  /\ Len(events[1].reverted_blocks) = 2
  /\ \E i \in DOMAIN events[1].reverted_blocks :
       transactions(events[1].reverted_blocks[i].block) # << >>
  /\ SomeCall(C32_Reverts)

(* ------------------------------ C33 ------------------------------------ *)
\* The step makes another block the head.
NewHead == state'.head_hash # state.head_hash

\* The step rotates the slots and installs the new head as election_head and
\* macro_info.
Rotated ==
  /\ state'.previous_slots = state.current_slots
  /\ state'.current_slots = get_validators(state'.main_chain.head)
  /\ state'.election_head = state'.main_chain.head
  /\ state'.election_head_hash = state'.head_hash
  /\ state'.macro_info = state'.main_chain
  /\ state'.macro_head_hash = state'.head_hash

\* After the step the store holds no chain-info of an epoch older than the
\* epoch of block number n less MAX_EPOCHS_STORED.
PrunedFor(n) ==
  \A h \in DOMAIN chain_store'.chain_info :
     epoch_at(block_number(h)) >= saturating_sub(epoch_at(n), MAX_EPOCHS_STORED)

\* The step leaves the slots and the election head as they are.
SlotsKept ==
  /\ state'.previous_slots = state.previous_slots
  /\ state'.current_slots = state.current_slots
  /\ state'.election_head = state.election_head
  /\ state'.election_head_hash = state.election_head_hash

\* The rotation alone: what C33 says of the in-memory state.
C33_Rotation ==
  [][NewHead =>
       IF is_election_block(state'.main_chain.head) THEN Rotated ELSE SlotsKept]_vars

\* The pruning when extend makes an election block the head.
C33_ExtendPrunes ==
  [][(NewHead /\ result' = "Extended"
        /\ is_election_block(state'.main_chain.head))
       => PrunedFor(block_number(state'.main_chain.head))]_vars

\* C33: when an election block at height n becomes head, previous_slots
\* becomes the former current_slots, current_slots the validators elected in
\* the block, election_head and macro_info the block, and the epochs older
\* than epoch_at(n) - MAX_EPOCHS_STORED (saturating at 0) are pruned from the
\* store; when another block becomes head the slots and election_head stay.
C33_ElectionBlockBecomesHead ==
  [][NewHead =>
       IF is_election_block(state'.main_chain.head)
       THEN Rotated /\ PrunedFor(block_number(state'.main_chain.head))
       ELSE SlotsKept]_vars

(* ------------------------------ C34 ------------------------------------ *)
\* The steps of a push once its caller holds the upgradable guard.
PushStep(p) ==
  \/ Pipeline(p) \/ WriteMacro(p) \/ WriteMainChain(p) \/ WriteHeadHash(p)
  \/ Downgrade(p) \/ Notify(p) \/ NotifyLogs(p) \/ Return(p)

\* The pushers run, the readers drop their guards, and the lock lets an
\* upgrade through once the readers have left (it is fair to the upgrade).
LockFairSpec ==
  /\ LockSpec
  /\ \A p \in Pushers : WF_vars(PushStep(p)) /\ SF_vars(Upgrade(p))
  /\ \A r \in Readers : WF_vars(read_unlock(r))

\* Under the lock every push that was called returns.
C34_LockProgress == \A p \in Pushers : (pc[p] = "do_push") ~> (pc[p] = "idle")

\* The call returns a PushResult or a PushError, and where it comes to
\* rebranch the walk up the fork chain has reached a block of the main chain.
C34_Completes(b, trust, c, out) ==
  /\ out.result \in Results
  /\ (EarlyStage(chain_store, state, b, trust, c.proposer) = "order"
        /\ c.order = "Superior") => ForkWalk(b).ok

\* C34: every push runs to completion: each call returns a PushResult or a
\* PushError; the fork walk in rebranch reaches a block with on_main_chain =
\* true and the revert walk from the head reaches the common ancestor.
C34_PushCompletes == EveryCall(C34_Completes)

(* ------------------------------ C35 ------------------------------------ *)
\* The calls of push of the long chains in the current state.
EveryDeepCall(P(_, _, _, _)) ==
  \A b \in DeepCandidates : \A c \in Choices(b, FALSE) :
     P(b, FALSE, c, Call(b, FALSE, c))

\* The call comes to rebranch and passes its finality guard.
PassesGuard(b, trust, c) ==
  /\ EarlyStage(chain_store, state, b, trust, c.proposer) = "order"
  /\ c.order = "Superior"
  /\ ForkWalk(b).ok
  /\ ~AncestorFinalized(ForkWalk(b).ancestor, state)

\* The blocks of the main chain from the head down to, and excluding, a.
MainChainAbove(a) ==
  {SubSeq(state.head_hash, 1, n) :
     n \in (block_number(a) + 1)..block_number(state.head_hash)}

C35_NoMacroToRevert(b, trust, c, out) ==
  /\ out.result # "panic: Trying to rebranch across macro block"
  /\ PassesGuard(b, trust, c) =>
       \A m \in MainChainAbove(CommonAncestor(b)) : ~is_macro(m)

\* C35: the panic 'Trying to rebranch across macro block' is unreachable: in
\* every reachable state a rebranch that passes the finality guard has no
\* macro block among the blocks of the main chain from the head down to, and
\* excluding, the common ancestor.
C35_NoRebranchAcrossMacro ==
  /\ result # "panic: Trying to rebranch across macro block"
  /\ EveryDeepCall(C35_NoMacroToRevert)

(* ------------------------------ C36 ------------------------------------ *)
\* The highest-numbered macro block on the main chain (genesis when there is
\* no other).
LatestMacroOnMainChain ==
  SubSeq(state.head_hash, 1, last_macro_block(HeadNumber))

\* C36: after every completed push the in-memory macro_info is the
\* highest-numbered macro block on the main chain, also after a rebranch that
\* adopts a fork chain with a macro block below its tip.
C36_MacroInfoIsLatest ==
  ~Panicked =>
    /\ state.macro_info.head = LatestMacroOnMainChain
    /\ state.macro_head_hash = hash(LatestMacroOnMainChain)

(* ------------------------------ C37 ------------------------------------ *)
\* The expects of the two walks of rebranch on a predecessor the store lacks.
CorruptedStorePanics ==
  {"panic: Corrupted store: Failed to find fork predecessor while rebranching",
   "panic: Corrupted store: Failed to find main chain predecessor while rebranching"}

C37_FindsPredecessors(b, trust, c, out) == out.result \notin CorruptedStorePanics

\* C37: parent closure of the store: after any sequence of pushes, failed
\* rebranches that delete fork blocks included, every stored chain-info other
\* than genesis has the chain-info of its parent stored too, and no call of
\* push hits the expects 'Corrupted store: Failed to find fork predecessor'
\* or 'Failed to find main chain predecessor' of rebranch.
C37_ParentClosure ==
  /\ \A h \in Stored : h # Genesis => parent_hash(h) \in Stored
  /\ result \notin CorruptedStorePanics
  /\ EveryCall(C37_FindsPredecessors)

(* ------------------------------ C38 ------------------------------------ *)
\* The blocks of the fork chain of b, the pushed block included.
ForkChainOf(b) ==
  {ForkWalk(b).fork_chain[i].hash : i \in DOMAIN ForkWalk(b).fork_chain}

\* The call comes to rebranch, passes the guard and fails to commit a block
\* of the fork chain.
FailsToCommit(b, trust, c, out) ==
  /\ PassesGuard(b, trust, c)
  /\ out.result = "InvalidFork"

\* The blocks of the fork chain of b that the store out does not hold.
Gone(b, out) == ForkChainOf(b) \ DOMAIN out.store.chain_info

C38_Removed(b, trust, c, out) ==
  FailsToCommit(b, trust, c, out) =>
    /\ Gone(b, out) # {}
    /\ \A x \in ForkChainOf(b) :
         (\E f \in Gone(b, out) : IsOnChainOf(f, x)) => x \in Gone(b, out)
    /\ \A x \in Gone(b, out) :
         x \notin get_blocks_at(out.store, block_number(x))

\* C38: when a rebranch fails at fork block f, each fork block at or above f
\* is removed from the store under its own block number: afterwards
\* get_chain_info returns none of them for its hash and get_blocks_at returns
\* none of them for its own height.
C38_RemovedAtOwnHeight ==
  /\ EveryCall(C38_Removed)
  /\ \A n \in DOMAIN chain_store.height_index :
       get_blocks_at(chain_store, n) \subseteq Stored

(* ------------------------------ C39 ------------------------------------ *)
C39_OtherBlock(b, trust, c, out) ==
  \A f \in out.forks : hash(f.header2) # hash(b)

C39_StoredBlock(b, trust, c, out) ==
  \A f \in out.forks : has_chain_info(chain_store, hash(f.header2))

\* No fork proof pairs the pushed block with itself.
C39_NoSelfPair == EveryCall(C39_OtherBlock)

TransactionsOf(b, trust, c) ==
  PushTransactions(chain_store, accounts, state, b, trust, c.proposer, c.order)

\* No write transaction is opened while another is open.
OneAtATime(t) ==
  \A i \in DOMAIN t : (t[i] = "open" /\ i > 1) => t[i - 1] # "open"

\* Every write transaction opened is committed or aborted, and nothing is
\* committed or aborted that was not opened just before.
AllEnded(t) ==
  \A i \in DOMAIN t :
     IF t[i] = "open" THEN i < Len(t) /\ t[i + 1] \in {"commit", "abort"}
     ELSE i > 1 /\ t[i - 1] = "open"

C40_Transactions(b, trust, c, out) ==
  /\ OneAtATime(TransactionsOf(b, trust, c))
  /\ out.result \in Results =>
       /\ AllEnded(TransactionsOf(b, trust, c))
       /\ (\A i \in DOMAIN TransactionsOf(b, trust, c) :
             TransactionsOf(b, trust, c)[i] # "commit")
            => out.store = chain_store /\ out.accounts = accounts
       /\ (out.store # chain_store \/ out.accounts # accounts)
            => TransactionsOf(b, trust, c)[Len(TransactionsOf(b, trust, c))] = "commit"

C40_AbortsAndRemoves(b, trust, c, out) ==
  /\ TransactionsOf(b, trust, c) = << "open", "abort", "open", "commit" >>
  /\ out.result = "InvalidFork"
C40_Aborts(b, trust, c, out) ==
  /\ TransactionsOf(b, trust, c) = << "open", "abort" >>
  /\ out.result \in {"DuplicateTransaction", "AccountsError",
                     "InvalidBlock(AccountsHashMismatch)"}

====
